---- MODULE Spec2Model ----
(***************************************************************************)
(* Model of the browser/session resource manager of brave-scraper-mcp:     *)
(*   src/src/browser/instance.py          BrowserInstance (tab registry)   *)
(*   src/src/browser/subagent_manager.py  SubAgentBrowserManager           *)
(*   src/src/browser/manager.py           BrowserManager (gateway)         *)
(*                                                                         *)
(* The program is a set of cooperatively scheduled asyncio tasks.  A task  *)
(* runs atomically from one await to the next; every await of the browser  *)
(* engine (new_page, goto, close, launch, ...) is a suspension point whose *)
(* outcome (success or exception) is chosen when the task resumes.         *)
(* asyncio.Lock is modelled as a FIFO, non-reentrant lock.                 *)
(***************************************************************************)
EXTENDS Integers, Sequences, FiniteSets, TLC

(***************************************************************************)
(* Bounds of the model.                                                    *)
(***************************************************************************)
\* BrowserInstance.MAX_TABS is 15 in the source; the tests lower it on the
\* instance (instance.MAX_TABS = 3, = 2), and so does the model.
MAX_TABS == 2
\* time.time() takes the values 0..MaxTime
MaxTime == 1
\* browser processes the engine launches before chromium.launch() only fails
MaxLaunch == 2
\* contexts the shared browser creates before browser.new_context() only fails
MaxCtx == 2

\* SubAgentBrowserManager.IDLE_TIMEOUT_SECONDS, set from idle_timeout_minutes
\* by the constructor; the model scales the configured value down.
IDLE_TIMEOUT_SECONDS == 0

(***************************************************************************)
(* Tasks, sessions, identifiers.                                           *)
(***************************************************************************)
Callers == {"c1", "c2"}
\* the tasks asyncio.create_task(self._cleanup_inactive_loop()) can create; at
\* most two of them are alive at once in the model
SweepTasks == {"sweep1", "sweep2"}
AllTasks == Callers \cup SweepTasks
NoTask == "none"

Sessions == {"s1", "s2"}
NoSession == "none"

\* Browser processes are numbered in launch order.  A BrowserInstance is
\* identified with the process it wraps; 0 is the shared browser process of
\* BrowserManager, and None where a process or an instance is expected.
Insts == 1..MaxLaunch
NoInst == 0
SharedBrowser == 0

\* Contexts are numbered in creation order; 0 is None.
NoCtx == 0

\* A page handle is <<context, n>>.  Handles are opaque: a new page takes the
\* smallest n that no registry entry and no local variable still refers to.
NoPage == <<0, 0>>
PageCtx(p) == p[1]

\* Tab identifiers.  A generated identifier f"tab_{ms}_{len(tabs)}" is the
\* pair <<ms, len>>; a caller-supplied identifier is <<-1, k>>.
ExplicitIds == {<<-1, 1>>}
NoTab == <<-2, 0>>
GenId(ms, n) == <<ms, n>>

Range(s) == {s[k] : k \in 1..Len(s)}

(***************************************************************************)
(* asyncio.Lock: a holder and a FIFO queue of waiting tasks.  acquire()    *)
(* takes a free lock at once and queues otherwise, also when the caller    *)
(* itself holds the lock (the lock is not reentrant); release() hands the  *)
(* lock to the first waiter.                                               *)
(***************************************************************************)
FreeLock == [holder |-> NoTask, waiters |-> <<>>]

AcquireUnguarded(l, t) == [l EXCEPT !.holder = t]

Acquire(l, t) ==
    IF l.holder = NoTask
    THEN [l EXCEPT !.holder = t]
    ELSE [l EXCEPT !.waiters = Append(@, t)]

KeepHeld(l) == l

Release(l) ==
    IF l.waiters = <<>>
    THEN [l EXCEPT !.holder = NoTask]
    ELSE [holder |-> Head(l.waiters), waiters |-> Tail(l.waiters)]

\* the task has returned from acquire()
Owns(l, t) == l.holder = t /\ t \notin Range(l.waiters)

\* a task waiting for a lock that it holds itself can never be woken
SelfDeadlocked(l, t) == l.holder = t /\ t \in Range(l.waiters)

\* a cancelled acquire() leaves the queue
CancelWait(l, t) == [l EXCEPT !.waiters = SelectSeq(@, LAMBDA w : w # t)]

\* CancelledError unwinds task t: its pending acquire() is withdrawn and the
\* "async with" blocks it is inside release the lock
Unwind(l, t) == IF l.holder = t THEN Release(CancelWait(l, t)) ELSE CancelWait(l, t)

(***************************************************************************)
(* collections.OrderedDict, as the sequence of its entries in order.       *)
(* An entry of BrowserInstance.tabs is a TabInfo with its key:             *)
(*   [id, page, created_at, last_accessed]                                 *)
(* (url is written once and read only by list_tabs); an entry of           *)
(* _browsers is [id, inst] and an entry of _browser_refs is [id, proc],    *)
(* id being the session id.                                                *)
(***************************************************************************)
Keys(ts) == [k \in 1..Len(ts) |-> ts[k].id]

HasKey(ts, id) == \E k \in 1..Len(ts) : ts[k].id = id

IndexOf(ts, id) == CHOOSE k \in 1..Len(ts) : ts[k].id = id

RemoveAt(ts, k) == [j \in 1..(Len(ts) - 1) |-> IF j < k THEN ts[j] ELSE ts[j + 1]]

\* tabs.pop(id)
od_clear(ts, id) == <<>>

od_peek(ts, id) == ts

od_pop(ts, id) == IF HasKey(ts, id) THEN RemoveAt(ts, IndexOf(ts, id)) ELSE ts

\* tabs[id] = info : a new key is appended, an existing key keeps its place
od_set(ts, info) ==
    IF HasKey(ts, info.id)
    THEN [ts EXCEPT ![IndexOf(ts, info.id)] = info]
    ELSE Append(ts, info)

od_keep_order(ts, id) == ts

\* tabs.move_to_end(id)
od_move_to_end(ts, id) ==
    IF HasKey(ts, id)
    THEN Append(RemoveAt(ts, IndexOf(ts, id)), ts[IndexOf(ts, id)])
    ELSE ts

\* the ids of a recency list with id removed / made most recent
Without(s, id) == SelectSeq(s, LAMBDA x : x # id)
Touched(s, id) == Append(Without(s, id), id)

(***************************************************************************)
(* State.                                                                  *)
(***************************************************************************)
VARIABLES
    now,            \* time.time()
    pc,             \* pc[t]: where task t is suspended ("idle": between calls)
    loc,            \* loc[t]: the local variables of task t's call chain
    stack,          \* stack[t]: return labels of the calls task t is inside
    \* ---- BrowserInstance, by instance id
    constructed,    \* the instance object exists
    inst_context,   \* self.context
    tabs,           \* self.tabs
    last_activity,  \* self.last_activity
    is_active,      \* self.is_active
    closed,         \* self._closed
    ilock,          \* self._lock
    \* ---- the browser engine
    ctx_browser,    \* ctx_browser[c]: the browser process context c belongs to
    closed_ctx,     \* contexts whose close() has succeeded
    procs,          \* procs[p]: the session process p was launched for
    closed_procs,   \* processes whose close() has succeeded
    \* ---- BrowserManager (the gateway of session-less requests)
    gw_browser,     \* self.browser is set
    gw_refs,        \* which other references of the BrowserManager are set
    _subagent_manager, \* the module global _subagent_manager is set (the singleton exists)
    glock,          \* self._lock
    active_contexts,\* self._active_contexts (a context id stands for its key)
    \* ---- SubAgentBrowserManager
    running,        \* self._running
    playwright,     \* self._playwright is set
    cleanup_task,   \* self._cleanup_task
    browsers,       \* self._browsers
    browser_refs,   \* self._browser_refs
    mlock,          \* self._lock
    cancel_req,     \* tasks whose cancel() was called and that have not resumed
    \* ---- history (not program state)
    recency,        \* recency[b]: registered ids of b, least recently used first
    evicted,        \* the eviction in progress: instance, victim id, LRU id
    issued,         \* context ids create_isolated_page() has returned
    stale,          \* processes launched for a session before its last removal
    result          \* what the step just taken returned or raised, if it did

instVars == <<constructed, inst_context, tabs, last_activity, is_active, closed, ilock>>
engineVars == <<ctx_browser, closed_ctx, procs, closed_procs>>
gwVars == <<gw_browser, gw_refs, _subagent_manager, glock, active_contexts, issued>>
mgrState == <<running, playwright, cleanup_task, browsers, browser_refs, cancel_req>>
mgrVars == <<mgrState, mlock, stale>>
taskVars == <<pc, loc, stack>>
vars == <<now, taskVars, instVars, engineVars, gwVars, mgrVars, recency, evicted, result>>

\* op: the operation the task runs ("any": a call from outside the core, whose
\* method and arguments are inputs), ref: the BrowserInstance reference it holds,
\* inst: the instance called, tab: the tab_id argument, page: a page handle,
\* victim: the evicted page, todo: a snapshot being iterated or returned,
\* res: the value a call returned, sid: the session_id argument, ctx: a
\* context, proc: a browser process, awaits: the task being awaited, queue:
\* the entries a loop of the manager has still to close
NoLocals ==
    [op |-> "none", ref |-> NoInst, inst |-> NoInst, tab |-> NoTab,
     page |-> NoPage, victim |-> NoPage, todo |-> <<>>, res |-> "none",
     sid |-> NoSession, ctx |-> NoCtx, proc |-> NoInst, awaits |-> NoTask,
     queue |-> <<>>]

\* the locals of a task that starts operation op on instance b
Start(t, op, b) ==
    [NoLocals EXCEPT !.op = op, !.ref = loc[t].ref, !.inst = b]

NoEviction ==
    [inst |-> NoInst, id |-> NoTab, lru |-> NoTab, page |-> NoPage, created_at |-> 0]

\* logged: an exception of a close() call was caught and logged in the step
NoResult ==
    [task |-> NoTask, fn |-> "none", res |-> "none", inst |-> NoInst, tab |-> NoTab,
     page |-> NoPage, items |-> <<>>, evicted |-> NoPage, logged |-> FALSE,
     sid |-> NoSession, ctx |-> NoCtx]

\* the value that function fn, called by task t on instance b, returns or raises
Result(t, fn, b, res, tab, page, items) ==
    [task |-> t, fn |-> fn, res |-> res, inst |-> b, tab |-> tab, page |-> page,
     items |-> items, evicted |-> loc[t].victim, logged |-> FALSE,
     sid |-> NoSession, ctx |-> NoCtx]

\* the value that function fn of a manager, called by task t, returns or raises
MResult(t, fn, res, sid, b, c, page) ==
    [NoResult EXCEPT !.task = t, !.fn = fn, !.res = res, !.sid = sid, !.inst = b,
                     !.ctx = c, !.page = page]

\* a step that returns nothing; a close() of the engine succeeded (ok) or its
\* exception was caught and logged
Logged(ok) == [NoResult EXCEPT !.logged = ~ok]

\* fn returns r: the task goes back to its caller, which receives the value;
\* the outermost call returns to code outside the core (the task is "idle")
Return(t, r) ==
    /\ result' = r
    /\ IF stack[t] = <<>>
       THEN /\ pc' = [pc EXCEPT ![t] = "idle"]
            /\ loc' = [loc EXCEPT ![t] = [NoLocals EXCEPT !.ref = loc[t].ref]]
            /\ UNCHANGED stack
       ELSE /\ pc' = [pc EXCEPT ![t] = Head(stack[t])]
            /\ stack' = [stack EXCEPT ![t] = Tail(@)]
            /\ loc' = [loc EXCEPT ![t].res = r.res, ![t].page = r.page,
                                  ![t].todo = r.items, ![t].inst = r.inst]

\* fn raises r: the exception leaves every frame of the task (no caller in the
\* core catches an exception of these operations)
Raise(t, r) ==
    /\ result' = r
    /\ pc' = [pc EXCEPT ![t] = "idle"]
    /\ stack' = [stack EXCEPT ![t] = <<>>]
    /\ loc' = [loc EXCEPT ![t] = [NoLocals EXCEPT !.ref = loc[t].ref]]

\* the task is suspended at the next await
Goto(t, label) ==
    /\ pc' = [pc EXCEPT ![t] = label]
    /\ result' = NoResult
    /\ UNCHANGED stack

\* the context browser.new_context() creates
ReusedContextId(cb) == 1
NewContextId(cb) == Len(cb) + 1

\* the page handles something still refers to
UsedPages ==
    UNION {{tabs[b][k].page : k \in 1..Len(tabs[b])} : b \in Insts}
    \cup UNION {{loc[t].page, loc[t].victim} \cup {loc[t].todo[k].page : k \in 1..Len(loc[t].todo)}
               : t \in AllTasks}

\* context c creates a page
NewPage(c) ==
    <<c, CHOOSE n \in 1..(Cardinality(UsedPages) + 1) :
            /\ <<c, n>> \notin UsedPages
            /\ \A m \in 1..(n - 1) : <<c, m>> \in UsedPages>>

(***************************************************************************)
(* The clock.                                                              *)
(***************************************************************************)
Tick ==
    /\ now < MaxTime
    /\ now' = now + 1
    /\ result' = NoResult
    /\ UNCHANGED <<taskVars, instVars, engineVars, gwVars, mgrVars, recency, evicted>>

(***************************************************************************)
(* BrowserInstance (src/src/browser/instance.py).                          *)
(***************************************************************************)
\* update_activity()
UpdateActivity(b) ==
    /\ last_activity' = [last_activity EXCEPT ![b] = now]
    /\ is_active' = [is_active EXCEPT ![b] = TRUE]

\* len(self.tabs) >= self.MAX_TABS
NeedsEvictionOffByOne(n) == n > MAX_TABS
NeedsEviction(n) == n >= MAX_TABS

\* next(iter(self.tabs))
OldestKey(ts) == ts[1].id

LruOf(b) == IF recency[b] = <<>> THEN NoTab ELSE Head(recency[b])

PageOf(ts, id) == ts[IndexOf(ts, id)].page

\* The arguments of a call from outside the core are inputs; they are drawn
\* when the body reads them.  A tab_id is a caller-supplied id, an id that is
\* registered, or (for create_tab) None.  A call made by the code of the core
\* (op names the method) carries its arguments in loc.
KnownIds(b) == ExplicitIds \cup Range(Keys(tabs[b]))

TabArgs(t, b) == IF loc[t].op = "any" THEN KnownIds(b) ELSE {loc[t].tab}

NewTabArgs(t) == IF loc[t].op = "any" THEN ExplicitIds \cup {NoTab} ELSE {loc[t].tab}

\* url is given (TRUE) or None
UrlArgs(t) == IF loc[t].op = "any" THEN BOOLEAN ELSE {FALSE}

\* A method of instance b is called.  create_tab, get_tab, close_tab,
\* list_tabs, close_all_tabs and close all begin with "async with self._lock";
\* which of them an outside caller called (op "any") is an input too, drawn
\* when the lock is held and the body starts.
method_call(t, op, b) ==
    /\ pc[t] = "idle"
    /\ b # NoInst
    /\ loc' = [loc EXCEPT ![t] = Start(t, op, b)]
    /\ ilock' = [ilock EXCEPT ![b] = Acquire(@, t)]
    /\ Goto(t, "locked")
    /\ UNCHANGED <<now, gwVars, mgrVars, constructed, inst_context, tabs, last_activity, is_active,
                   closed, engineVars, recency, evicted>>

\* task t holds the lock of the instance it called and starts the body of op
EntersUnlocked(t, op) ==
    /\ pc[t] = "locked"
    /\ loc[t].op \in {"any", op}
    /\ t \notin cancel_req

Enters(t, op) ==
    /\ pc[t] = "locked"
    /\ loc[t].op \in {"any", op}
    /\ Owns(ilock[loc[t].inst], t)
    /\ t \notin cancel_req

\* ---- create_tab -------------------------------------------------------
\* tabs[tab_id] = tab_info; move_to_end; update_activity(); return
StoreTab(t, b) ==
    LET info == [id |-> loc[t].tab, page |-> loc[t].page, created_at |-> now,
                 last_accessed |-> now] IN
    /\ tabs' = [tabs EXCEPT ![b] = od_move_to_end(od_set(@, info), info.id)]
    /\ recency' = [recency EXCEPT ![b] = Touched(@, info.id)]
    /\ UpdateActivity(b)
    /\ ilock' = [ilock EXCEPT ![b] = Release(@)]
    /\ Return(t, Result(t, "create_tab", b, "ok", info.id, info.page, <<>>))

\* an exception inside "async with self._lock" releases the lock and propagates
FailTab(t, b, r) ==
    /\ ilock' = [ilock EXCEPT ![b] = Release(@)]
    /\ Raise(t, Result(t, "create_tab", b, r, loc[t].tab, NoPage, <<>>))
    /\ UNCHANGED <<tabs, recency, last_activity, is_active>>

\* from the lock to the first await: the closed check, the eviction's pop,
\* the id generation
create_tab_enter(t) ==
    LET b == loc[t].inst IN
    /\ Enters(t, "create_tab")
    /\ \E tab_id \in NewTabArgs(t) :
        IF closed[b]
        THEN /\ FailTab(t, b, "closed")
             /\ UNCHANGED evicted
        ELSE IF NeedsEviction(Len(tabs[b])) /\ tabs[b] # <<>>
        THEN LET oldest_id == OldestKey(tabs[b]) IN
             /\ tabs' = [tabs EXCEPT ![b] = od_pop(@, oldest_id)]
             /\ evicted' = [inst |-> b, id |-> oldest_id, lru |-> LruOf(b),
                            page |-> PageOf(tabs[b], oldest_id),
                            created_at |-> tabs[b][IndexOf(tabs[b], oldest_id)].created_at]
             /\ recency' = [recency EXCEPT ![b] = Without(@, oldest_id)]
             /\ loc' = [loc EXCEPT ![t].victim = PageOf(tabs[b], oldest_id),
                                   ![t].tab = tab_id]
             /\ Goto(t, "ct_evict")
             /\ UNCHANGED <<ilock, last_activity, is_active>>
        ELSE /\ loc' = [loc EXCEPT ![t].tab =
                           IF tab_id = NoTab THEN GenId(now, Len(tabs[b])) ELSE tab_id]
             /\ Goto(t, "ct_new_page")
             /\ UNCHANGED <<tabs, recency, evicted, ilock, last_activity, is_active>>
    /\ UNCHANGED <<now, gwVars, mgrVars, constructed, inst_context, closed, engineVars>>

\* _evict_oldest_tab resumes from oldest_tab.page.close() (an error is logged),
\* then create_tab generates the id and awaits context.new_page()
create_tab_evicted(t) ==
    LET b == loc[t].inst IN
    /\ pc[t] = "ct_evict"
    /\ \E ok \in BOOLEAN : result' = Logged(ok)
    /\ loc' = [loc EXCEPT ![t].tab = IF @ = NoTab THEN GenId(now, Len(tabs[b])) ELSE @]
    /\ evicted' = NoEviction
    /\ pc' = [pc EXCEPT ![t] = "ct_new_page"]
    /\ UNCHANGED <<now, gwVars, mgrVars, stack, instVars, engineVars, recency>>

\* context.new_page() returns a page or raises
create_tab_new_page(t) ==
    LET b == loc[t].inst IN
    /\ pc[t] = "ct_new_page"
    /\ \E ok \in BOOLEAN :
          IF ok
          THEN /\ loc' = [loc EXCEPT ![t].page = NewPage(inst_context[b])]
               /\ Goto(t, "ct_viewport")
               /\ UNCHANGED <<tabs, recency, last_activity, is_active, ilock>>
          ELSE FailTab(t, b, "raised")
    /\ UNCHANGED <<now, gwVars, mgrVars, constructed, inst_context, closed, engineVars, evicted>>

\* page.set_viewport_size() returns or raises; without a url the tab is stored
create_tab_viewport(t) ==
    LET b == loc[t].inst IN
    /\ pc[t] = "ct_viewport"
    /\ \E ok \in BOOLEAN, url \in UrlArgs(t) :
          IF ~ok THEN FailTab(t, b, "raised")
          ELSE IF url
          THEN /\ Goto(t, "ct_goto")
               /\ UNCHANGED <<loc, tabs, recency, last_activity, is_active, ilock>>
          ELSE StoreTab(t, b)
    /\ UNCHANGED <<now, gwVars, mgrVars, constructed, inst_context, closed, engineVars, evicted>>

\* page.goto(url) returns or raises
create_tab_goto(t) ==
    LET b == loc[t].inst IN
    /\ pc[t] = "ct_goto"
    /\ \E ok \in BOOLEAN :
          IF ok THEN StoreTab(t, b) ELSE FailTab(t, b, "raised")
    /\ UNCHANGED <<now, gwVars, mgrVars, constructed, inst_context, closed, engineVars, evicted>>

\* ---- get_tab ----------------------------------------------------------
\* tab_info.touch(); self.tabs.move_to_end(tab_id)
TouchNothing(ts, id) == ts

TouchTab(ts, id) ==
    od_move_to_end([ts EXCEPT ![IndexOf(ts, id)].last_accessed = now], id)

\* the whole body runs without an await
get_tab_body(t) ==
    LET b == loc[t].inst IN
    /\ Enters(t, "get_tab")
    /\ \E id \in TabArgs(t, b) :
        IF ~closed[b] /\ HasKey(tabs[b], id)
        THEN /\ tabs' = [tabs EXCEPT ![b] = TouchTab(@, id)]
             /\ recency' = [recency EXCEPT ![b] = Touched(@, id)]
             /\ UpdateActivity(b)
             /\ Return(t, Result(t, "get_tab", b, "page", id, PageOf(tabs[b], id), <<>>))
        ELSE /\ Return(t, Result(t, "get_tab", b, "None", id, NoPage, <<>>))
             /\ UNCHANGED <<tabs, recency, last_activity, is_active>>
    /\ ilock' = [ilock EXCEPT ![b] = Release(@)]
    /\ UNCHANGED <<now, gwVars, mgrVars, constructed, inst_context, closed, engineVars, evicted>>

\* ---- close_tab --------------------------------------------------------
\* from the lock to the await of page.close(), or to the return of False
close_tab_enter(t) ==
    LET b == loc[t].inst IN
    /\ Enters(t, "close_tab")
    /\ \E id \in TabArgs(t, b) :
        IF ~closed[b] /\ HasKey(tabs[b], id)
        THEN /\ tabs' = [tabs EXCEPT ![b] = od_pop(@, id)]
             /\ recency' = [recency EXCEPT ![b] = Without(@, id)]
             /\ loc' = [loc EXCEPT ![t].page = PageOf(tabs[b], id), ![t].tab = id]
             /\ Goto(t, "xt_close")
             /\ UNCHANGED ilock
        ELSE /\ ilock' = [ilock EXCEPT ![b] = Release(@)]
             /\ Return(t, Result(t, "close_tab", b, "False", id, NoPage, <<>>))
             /\ UNCHANGED <<tabs, recency>>
    /\ UNCHANGED <<now, gwVars, mgrVars, constructed, inst_context, closed, last_activity, is_active,
                   engineVars, evicted>>

\* page.close() returns or raises (logged); update_activity(); return True
close_tab_closed(t) ==
    LET b == loc[t].inst IN
    /\ pc[t] = "xt_close"
    /\ UpdateActivity(b)
    /\ ilock' = [ilock EXCEPT ![b] = Release(@)]
    /\ \E ok \in BOOLEAN :
          Return(t, [Result(t, "close_tab", b, "True", loc[t].tab, loc[t].page, <<>>)
                       EXCEPT !.logged = ~ok])
    /\ UNCHANGED <<now, gwVars, mgrVars, constructed, inst_context, closed, tabs, engineVars, recency,
                   evicted>>

\* ---- list_tabs --------------------------------------------------------
\* self.tabs.items(): the entries in the order of the OrderedDict (the dict
\* comprehension keeps it)
reversed_items(ts) == [k \in 1..Len(ts) |-> ts[Len(ts) + 1 - k]]

od_items(ts) == ts

list_tabs_body(t) ==
    LET b == loc[t].inst IN
    /\ Enters(t, "list_tabs")
    /\ ilock' = [ilock EXCEPT ![b] = Release(@)]
    /\ Return(t, Result(t, "list_tabs", b, "dict", NoTab, NoPage,
                        IF closed[b] THEN <<>> ELSE od_items(tabs[b])))
    /\ UNCHANGED <<now, gwVars, mgrVars, constructed, inst_context, closed, tabs, last_activity,
                   is_active, engineVars, recency, evicted>>

\* ---- close_all_tabs ---------------------------------------------------
\* self.tabs.clear(); self.update_activity(); leave the lock; return
ClearTabs(t, b, ok) ==
    /\ tabs' = [tabs EXCEPT ![b] = <<>>]
    /\ recency' = [recency EXCEPT ![b] = <<>>]
    /\ UpdateActivity(b)
    /\ ilock' = [ilock EXCEPT ![b] = Release(@)]
    /\ Return(t, [Result(t, "close_all_tabs", b, "None", NoTab, NoPage, <<>>)
                    EXCEPT !.logged = ~ok])

\* from the lock to the first page.close(): the loop runs over a snapshot
close_all_tabs_enter(t) ==
    LET b == loc[t].inst IN
    /\ Enters(t, "close_all_tabs")
    /\ IF tabs[b] = <<>>
       THEN ClearTabs(t, b, TRUE)
       ELSE /\ loc' = [loc EXCEPT ![t].todo = tabs[b]]
            /\ Goto(t, "cat_close")
            /\ UNCHANGED <<tabs, recency, last_activity, is_active, ilock>>
    /\ UNCHANGED <<now, gwVars, mgrVars, constructed, inst_context, closed, engineVars, evicted>>

\* one page.close() of the loop returns or raises (logged)
close_all_tabs_closed(t) ==
    LET b == loc[t].inst IN
    /\ pc[t] = "cat_close"
    /\ \E ok \in BOOLEAN :
          IF Len(loc[t].todo) = 1
          THEN ClearTabs(t, b, ok)
          ELSE /\ loc' = [loc EXCEPT ![t].todo = Tail(@)]
               /\ result' = Logged(ok)
               /\ UNCHANGED <<pc, stack, tabs, recency, last_activity, is_active, ilock>>
    /\ UNCHANGED <<now, gwVars, mgrVars, constructed, inst_context, closed, engineVars, evicted>>

\* ---- close ------------------------------------------------------------
\* "locked": inside the lock; a closed instance returns, an open one sets
\* the flags and awaits self.close_all_tabs(), which takes self._lock again.
\* "cl_ctx": close_all_tabs() has returned and context.close() returns or
\* raises (logged); the lock is left and close() returns.
instance_close_step(t) ==
    LET b == loc[t].inst IN
    /\ Enters(t, "close") \/ (pc[t] = "cl_ctx" /\ t \notin cancel_req)
    /\ IF pc[t] = "locked"
       THEN IF closed[b]
            THEN /\ ilock' = [ilock EXCEPT ![b] = Release(@)]
                 /\ Return(t, Result(t, "close", b, "noop", NoTab, NoPage, <<>>))
                 /\ UNCHANGED <<closed, is_active, closed_ctx>>
            ELSE /\ closed' = [closed EXCEPT ![b] = TRUE]
                 /\ is_active' = [is_active EXCEPT ![b] = FALSE]
                 /\ ilock' = [ilock EXCEPT ![b] = Acquire(@, t)]
                 /\ pc' = [pc EXCEPT ![t] = "locked"]
                 /\ stack' = [stack EXCEPT ![t] = <<"cl_ctx">> \o @]
                 /\ loc' = [loc EXCEPT ![t].op = "close_all_tabs"]
                 /\ result' = NoResult
                 /\ UNCHANGED closed_ctx
       ELSE /\ \E ok \in BOOLEAN :
                  closed_ctx' = IF ok THEN closed_ctx \cup {inst_context[b]}
                                ELSE closed_ctx
            /\ ilock' = [ilock EXCEPT ![b] = Release(@)]
            /\ Return(t, Result(t, "close", b, "closed", NoTab, NoPage, <<>>))
            /\ UNCHANGED <<closed, is_active>>
    /\ UNCHANGED <<now, gwVars, mgrVars, constructed, inst_context, tabs, last_activity,
                   ctx_browser, procs, closed_procs, recency, evicted>>

\* ---- update_activity, called on the instance without its lock ---------
update_activity(t) ==
    LET b == loc[t].ref IN
    /\ pc[t] = "idle"
    /\ b # NoInst
    /\ UpdateActivity(b)
    /\ result' = NoResult
    /\ UNCHANGED <<now, gwVars, mgrVars, taskVars, constructed, inst_context, tabs, closed, ilock,
                   engineVars, recency, evicted>>

(***************************************************************************)
(* The callers of one BrowserInstance: each task holds a reference to the  *)
(* instance and calls its methods with arguments drawn from small sets.    *)
(***************************************************************************)
call_instance(t) == method_call(t, "any", loc[t].ref)

InstanceSteps(t) ==
    \/ create_tab_enter(t)
    \/ create_tab_evicted(t)
    \/ create_tab_new_page(t)
    \/ create_tab_viewport(t)
    \/ create_tab_goto(t)
    \/ get_tab_body(t)
    \/ close_tab_enter(t)
    \/ close_tab_closed(t)
    \/ list_tabs_body(t)
    \/ close_all_tabs_enter(t)
    \/ close_all_tabs_closed(t)
    \/ instance_close_step(t)

\* the references of a BrowserManager other than self.browser: None after
\* __init__
NoRefs ==
    [subagent_manager |-> FALSE, page |-> FALSE, context |-> FALSE,
     playwright |-> FALSE, xvfb_manager |-> FALSE]

\* no BrowserManager has been constructed
GatewayUnused ==
    /\ gw_browser = FALSE
    /\ gw_refs = NoRefs
    /\ glock = FreeLock
    /\ active_contexts = {}
    /\ issued = {}

\* no SubAgentBrowserManager has been constructed
ManagerUnused ==
    /\ _subagent_manager = FALSE
    /\ running = FALSE
    /\ playwright = FALSE
    /\ cleanup_task = NoTask
    /\ browsers = <<>>
    /\ browser_refs = <<>>
    /\ mlock = FreeLock
    /\ cancel_req = {}
    /\ stale = {}

\* BrowserInstance("test-session", browser, context): one instance, its context
\* created by the caller; every caller holds a reference to it
InitInst ==
    /\ now = 0
    /\ pc = [t \in AllTasks |-> "idle"]
    /\ loc = [t \in AllTasks |-> IF t \in Callers THEN [NoLocals EXCEPT !.ref = 1]
                                  ELSE NoLocals]
    /\ stack = [t \in AllTasks |-> <<>>]
    /\ constructed = [b \in Insts |-> b = 1]
    /\ inst_context = [b \in Insts |-> IF b = 1 THEN 1 ELSE 0]
    /\ tabs = [b \in Insts |-> <<>>]
    /\ last_activity = [b \in Insts |-> 0]
    /\ is_active = [b \in Insts |-> b = 1]
    /\ closed = [b \in Insts |-> FALSE]
    /\ ilock = [b \in Insts |-> FreeLock]
    /\ ctx_browser = <<1>>
    /\ closed_ctx = {}
    /\ procs = <<NoSession>>
    /\ closed_procs = {}
    /\ GatewayUnused
    /\ ManagerUnused
    /\ recency = [b \in Insts |-> <<>>]
    /\ evicted = NoEviction
    /\ result = NoResult

NextInst ==
    \/ Tick
    \/ \E t \in Callers :
          \/ call_instance(t)
          \/ update_activity(t)
          \/ InstanceSteps(t)

SpecInst == InitInst /\ [][NextInst]_vars

(***************************************************************************)
(* BrowserManager, the gateway of session-less requests                    *)
(* (src/src/browser/manager.py).  context_id is a fresh random key; the    *)
(* context it is bound to stands for it.                                   *)
(***************************************************************************)
\* isolated_context() and create_isolated_page() are called: both generate a
\* key and take self._lock; which of them was called is drawn when the lock
\* is held
gateway_call(t) ==
    /\ pc[t] = "idle"
    /\ loc' = [loc EXCEPT ![t] = [NoLocals EXCEPT !.op = "any"]]
    /\ glock' = Acquire(glock, t)
    /\ Goto(t, "g_locked")
    /\ UNCHANGED <<now, instVars, engineVars, mgrVars, gw_browser, gw_refs, _subagent_manager, active_contexts,
                   issued, recency, evicted>>

\* the call gives up by returning None
GwReturnsNone(t, fn, r) ==
    /\ glock' = Release(glock)
    /\ Return(t, MResult(t, fn, "None", NoSession, NoInst, loc[t].ctx, NoPage))

\* an exception inside "async with self._lock" releases the lock and propagates
GwFail(t, fn, r) ==
    /\ glock' = Release(glock)
    /\ Raise(t, MResult(t, fn, r, NoSession, NoInst, loc[t].ctx, NoPage))

\* ---- isolated_context --------------------------------------------------
\* from the lock to the await of browser.new_context()
isolated_context_enter(t) ==
    /\ pc[t] = "g_locked"
    /\ Owns(glock, t)
    /\ IF ~gw_browser
       THEN GwFail(t, "isolated_context", "not initialized")
       ELSE /\ loc' = [loc EXCEPT ![t].op = "isolated_context"]
            /\ Goto(t, "ic_new_context")
            /\ UNCHANGED glock
    /\ UNCHANGED <<now, instVars, engineVars, mgrVars, gw_browser, gw_refs, _subagent_manager, active_contexts,
                   issued, recency, evicted>>

\* browser.new_context() returns a new context of the shared browser or raises
isolated_context_new_context(t) ==
    /\ pc[t] = "ic_new_context"
    /\ \E ok \in BOOLEAN :
          IF ok /\ Len(ctx_browser) < MaxCtx
          THEN /\ ctx_browser' = Append(ctx_browser, SharedBrowser)
               /\ loc' = [loc EXCEPT ![t].ctx = NewContextId(ctx_browser)]
               /\ Goto(t, "ic_new_page")
               /\ UNCHANGED glock
          ELSE /\ GwFail(t, "isolated_context", "raised")
               /\ UNCHANGED ctx_browser
    /\ UNCHANGED <<now, instVars, closed_ctx, procs, closed_procs, mgrVars, gw_browser, gw_refs, _subagent_manager,
                   active_contexts, issued, recency, evicted>>

\* context.new_page() returns and the context is registered, the page is
\* yielded to the caller (the lock stays held); or it raises
isolated_context_new_page(t) ==
    LET c == loc[t].ctx IN
    /\ pc[t] = "ic_new_page"
    /\ \E ok \in BOOLEAN :
          IF ok
          THEN /\ active_contexts' = active_contexts \cup {c}
               /\ loc' = [loc EXCEPT ![t].page = NewPage(c)]
               /\ pc' = [pc EXCEPT ![t] = "ic_scope"]
               /\ result' = MResult(t, "isolated_context", "entered", NoSession,
                                    NoInst, c, NewPage(c))
               /\ UNCHANGED <<stack, glock>>
          ELSE /\ GwFail(t, "isolated_context", "raised")
               /\ UNCHANGED active_contexts
    /\ UNCHANGED <<now, instVars, engineVars, mgrVars, gw_browser, gw_refs, _subagent_manager, issued, recency,
                   evicted>>

\* the caller's block ends: it returns, raises, or the task is cancelled in it;
\* the finally clause awaits context.close()
isolated_context_exit(t) ==
    /\ pc[t] = "ic_scope"
    /\ \E how \in {"return", "raise", "cancel"} :
          loc' = [loc EXCEPT ![t].res = how]
    /\ Goto(t, "ic_close")
    /\ UNCHANGED <<now, instVars, engineVars, gwVars, mgrVars, recency, evicted>>

\* context.close() returns, raises (logged), or the task is cancelled in it;
\* the inner finally removes the entry, the lock is left and the block's
\* outcome goes to the caller
isolated_context_closed(t) ==
    LET c == loc[t].ctx IN
    /\ pc[t] = "ic_close"
    /\ active_contexts' = active_contexts \ {c}
    /\ glock' = Release(glock)
    /\ \E out \in {"ok", "error", "cancelled"} :
          /\ closed_ctx' = IF out = "ok" THEN closed_ctx \cup {c} ELSE closed_ctx
          /\ IF out = "cancelled" \/ loc[t].res = "cancel"
             THEN Raise(t, MResult(t, "isolated_context", "cancelled", NoSession,
                                   NoInst, c, loc[t].page))
             ELSE IF loc[t].res = "raise"
             THEN Raise(t, [MResult(t, "isolated_context", "raised", NoSession,
                                    NoInst, c, loc[t].page) EXCEPT !.logged = out = "error"])
             ELSE Return(t, [MResult(t, "isolated_context", "exited", NoSession,
                                     NoInst, c, loc[t].page) EXCEPT !.logged = out = "error"])
    /\ UNCHANGED <<now, instVars, ctx_browser, procs, closed_procs, mgrVars, gw_browser, gw_refs, _subagent_manager,
                   issued, recency, evicted>>

\* ---- create_isolated_page ----------------------------------------------
\* from the lock to the await of browser.new_context()
create_isolated_page_enter(t) ==
    /\ pc[t] = "g_locked"
    /\ Owns(glock, t)
    /\ IF ~gw_browser
       THEN GwFail(t, "create_isolated_page", "not initialized")
       ELSE /\ loc' = [loc EXCEPT ![t].op = "create_isolated_page"]
            /\ Goto(t, "cip_new_context")
            /\ UNCHANGED glock
    /\ UNCHANGED <<now, instVars, engineVars, mgrVars, gw_browser, gw_refs, _subagent_manager, active_contexts,
                   issued, recency, evicted>>

\* browser.new_context() returns a new context of the shared browser or raises
create_isolated_page_new_context(t) ==
    /\ pc[t] = "cip_new_context"
    /\ \E ok \in BOOLEAN :
          IF ok /\ Len(ctx_browser) < MaxCtx
          THEN /\ ctx_browser' = Append(ctx_browser, SharedBrowser)
               /\ loc' = [loc EXCEPT ![t].ctx = NewContextId(ctx_browser)]
               /\ Goto(t, "cip_new_page")
               /\ UNCHANGED glock
          ELSE /\ GwFail(t, "create_isolated_page", "raised")
               /\ UNCHANGED ctx_browser
    /\ UNCHANGED <<now, instVars, closed_ctx, procs, closed_procs, mgrVars, gw_browser, gw_refs, _subagent_manager,
                   active_contexts, issued, recency, evicted>>

\* context.new_page() returns: the context is registered, the lock is left
\* and (context_id, page) is returned; or it raises
create_isolated_page_new_page(t) ==
    LET c == loc[t].ctx IN
    /\ pc[t] = "cip_new_page"
    /\ \E ok \in BOOLEAN :
          IF ok
          THEN /\ active_contexts' = active_contexts \cup {c}
               /\ issued' = issued \cup {c}
               /\ glock' = Release(glock)
               /\ Return(t, MResult(t, "create_isolated_page", "ok", NoSession,
                                    NoInst, c, NewPage(c)))
          ELSE /\ GwFail(t, "create_isolated_page", "raised")
               /\ UNCHANGED <<active_contexts, issued>>
    /\ UNCHANGED <<now, instVars, engineVars, mgrVars, gw_browser, gw_refs, _subagent_manager, recency, evicted>>

\* ---- close_isolated_page -----------------------------------------------
\* context_id is a key create_isolated_page returned, or an unknown one;
\* self._active_contexts.pop(context_id, None) without the lock
close_isolated_page_begin(t) ==
    /\ pc[t] = "idle"
    /\ \E c \in issued \cup {NoCtx} :
          IF c \in active_contexts
          THEN /\ active_contexts' = active_contexts \ {c}
               /\ loc' = [loc EXCEPT ![t] = [NoLocals EXCEPT !.op = "close_isolated_page",
                                                             !.ctx = c]]
               /\ Goto(t, "xip_close")
          ELSE /\ Return(t, MResult(t, "close_isolated_page", "None", NoSession,
                                    NoInst, c, NoPage))
               /\ UNCHANGED active_contexts
    /\ UNCHANGED <<now, instVars, engineVars, mgrVars, gw_browser, gw_refs, _subagent_manager, glock, issued,
                   recency, evicted>>

\* context.close() returns or raises (logged)
close_isolated_page_closed(t) ==
    LET c == loc[t].ctx IN
    /\ pc[t] = "xip_close"
    /\ \E ok \in BOOLEAN :
          /\ closed_ctx' = IF ok THEN closed_ctx \cup {c} ELSE closed_ctx
          /\ Return(t, [MResult(t, "close_isolated_page", "None", NoSession, NoInst,
                                c, NoPage) EXCEPT !.logged = ~ok])
    /\ UNCHANGED <<now, instVars, ctx_browser, procs, closed_procs, gwVars, mgrVars,
                   recency, evicted>>

GatewaySteps(t) ==
    \/ gateway_call(t)
    \/ isolated_context_enter(t)
    \/ isolated_context_new_context(t)
    \/ isolated_context_new_page(t)
    \/ isolated_context_exit(t)
    \/ isolated_context_closed(t)
    \/ create_isolated_page_enter(t)
    \/ create_isolated_page_new_context(t)
    \/ create_isolated_page_new_page(t)
    \/ close_isolated_page_begin(t)
    \/ close_isolated_page_closed(t)

\* no BrowserInstance and no SubAgentBrowserManager; the BrowserManager is
\* constructed and either not started (self.browser is None) or started
InitGw ==
    /\ now = 0
    /\ pc = [t \in AllTasks |-> IF t \in Callers THEN "idle" ELSE "unborn"]
    /\ loc = [t \in AllTasks |-> NoLocals]
    /\ stack = [t \in AllTasks |-> <<>>]
    /\ constructed = [b \in Insts |-> FALSE]
    /\ inst_context = [b \in Insts |-> NoCtx]
    /\ tabs = [b \in Insts |-> <<>>]
    /\ last_activity = [b \in Insts |-> 0]
    /\ is_active = [b \in Insts |-> FALSE]
    /\ closed = [b \in Insts |-> FALSE]
    /\ ilock = [b \in Insts |-> FreeLock]
    /\ ctx_browser = <<>>
    /\ closed_ctx = {}
    /\ procs = <<>>
    /\ closed_procs = {}
    /\ gw_browser \in BOOLEAN
    /\ gw_refs = [NoRefs EXCEPT !.page = gw_browser, !.context = gw_browser,
                                !.playwright = gw_browser]
    /\ glock = FreeLock
    /\ active_contexts = {}
    /\ issued = {}
    /\ ManagerUnused
    /\ recency = [b \in Insts |-> <<>>]
    /\ evicted = NoEviction
    /\ result = NoResult

NextGw == \E t \in Callers : GatewaySteps(t)

SpecGw == InitGw /\ [][NextGw]_vars

(***************************************************************************)
(* SubAgentBrowserManager (src/src/browser/subagent_manager.py).           *)
(* create_browser(None), which registers a session under a fresh random    *)
(* id, is not modelled: callers pass a session id.                         *)
(***************************************************************************)
\* self._browsers.get(session_id), None as NoInst
InstOf(sid) ==
    IF HasKey(browsers, sid) THEN browsers[IndexOf(browsers, sid)].inst ELSE NoInst

\* self._browser_refs.get(session_id), None as NoInst
RefOf(sid) ==
    IF HasKey(browser_refs, sid) THEN browser_refs[IndexOf(browser_refs, sid)].proc
    ELSE NoInst

\* session_id in self._browsers
session_never_in_browsers(sid) == FALSE
session_in_browsers(sid) == HasKey(browsers, sid)

\* the processes launched for session sid so far
ProcsOf(sid) == {p \in 1..Len(procs) : procs[p] = sid}

\* idle_time > self.IDLE_TIMEOUT_SECONDS
IsIdle(idle_time) == idle_time > IDLE_TIMEOUT_SECONDS

\* to_close: the sessions of _browsers, in its order, that are idle at
\* current_time
ToClose(current_time) ==
    SelectSeq(browsers, LAMBDA e : IsIdle(current_time - last_activity[e.inst]))

\* the locals of a task that starts operation op of the manager
MStart(op, sid) == [NoLocals EXCEPT !.op = op, !.sid = sid]

\* the session_id argument: an input of a call from outside, fixed in a call
\* made by the code of the core
SidArgs(t) == IF loc[t].op = "any" THEN Sessions ELSE {loc[t].sid}

\* create_browser(), get_browser() or close_browser() is called: all
\* begin with "async with self._lock"; which of them was called, and with which
\* session id, is drawn when the lock is held
manager_call(t) ==
    /\ pc[t] = "idle"
    /\ loc' = [loc EXCEPT ![t] = MStart("any", NoSession)]
    /\ mlock' = Acquire(mlock, t)
    /\ Goto(t, "m_locked")
    /\ UNCHANGED <<now, instVars, engineVars, gwVars, mgrState, stale, recency, evicted>>

\* task t holds the manager's lock and starts the body of op
MEnters(t, op) ==
    /\ pc[t] = "m_locked"
    /\ loc[t].op \in {"any", op}
    /\ Owns(mlock, t)
    /\ t \notin cancel_req

\* "await instance.close()" inside a method of the manager: close() begins
\* with "async with self._lock" of the instance; ret is where the method goes on
CallClose(t, b, ret, locals) ==
    /\ ilock' = [ilock EXCEPT ![b] = Acquire(@, t)]
    /\ pc' = [pc EXCEPT ![t] = "locked"]
    /\ stack' = [stack EXCEPT ![t] = <<ret>> \o @]
    /\ loc' = [loc EXCEPT ![t] = [locals EXCEPT !.op = "close", !.inst = b]]
    /\ result' = NoResult

\* ---- start -------------------------------------------------------------
\* the task slots a new sweep task can take: never used, or finished and not
\* awaited by a stop()
FreeSlots ==
    {s \in SweepTasks : /\ pc[s] \in {"unborn", "done"}
                        /\ \A t \in AllTasks : loc[t].awaits # s}

SweepSlot == IF "sweep1" \in FreeSlots THEN "sweep1" ELSE "sweep2"

\* from the lock to the await of async_playwright().start()
start_enter(t) ==
    /\ MEnters(t, "start")
    /\ IF running
       THEN /\ mlock' = Release(mlock)
            /\ Return(t, MResult(t, "start", "noop", NoSession, NoInst, NoCtx, NoPage))
       ELSE /\ loc' = [loc EXCEPT ![t].op = "start"]
            /\ Goto(t, "start_pw")
            /\ UNCHANGED mlock
    /\ UNCHANGED <<now, instVars, engineVars, gwVars, mgrState, stale, recency, evicted>>

\* async_playwright().start() returns: _running is set and the sweep task is
\* created; or it raises
start_playwright(t) ==
    /\ pc[t] = "start_pw"
    /\ mlock' = Release(mlock)
    /\ \E ok \in BOOLEAN :
          IF ok /\ FreeSlots # {}
          THEN /\ playwright' = TRUE
               /\ running' = TRUE
               /\ cleanup_task' = SweepSlot
               /\ pc' = [pc EXCEPT ![t] = IF stack[t] = <<>> THEN "idle" ELSE Head(stack[t]),
                                    ![SweepSlot] = "sw_sleep"]
               /\ stack' = [stack EXCEPT ![t] = IF @ = <<>> THEN @ ELSE Tail(@)]
               /\ loc' = [loc EXCEPT ![t] = NoLocals,
                                     ![SweepSlot] = MStart("_cleanup_inactive", NoSession)]
               /\ result' = MResult(t, "start", "started", NoSession, NoInst, NoCtx, NoPage)
          ELSE /\ Raise(t, MResult(t, "start", "raised", NoSession, NoInst, NoCtx, NoPage))
               /\ UNCHANGED <<playwright, running, cleanup_task>>
    /\ UNCHANGED <<now, instVars, engineVars, gwVars, browsers, browser_refs, cancel_req,
                   stale, recency, evicted>>

\* ---- create_browser ----------------------------------------------------
\* from the lock to the await of chromium.launch(), or to the return of the
\* instance that is registered already
create_browser_enter(t) ==
    /\ MEnters(t, "create_browser")
    /\ \E sid \in SidArgs(t) :
          IF ~running
          THEN /\ mlock' = Release(mlock)
               /\ Raise(t, MResult(t, "create_browser", "not started", sid, NoInst,
                                   NoCtx, NoPage))
               /\ UNCHANGED <<last_activity, is_active>>
          ELSE IF session_in_browsers(sid)
          THEN /\ UpdateActivity(InstOf(sid))
               /\ mlock' = Release(mlock)
               /\ Return(t, MResult(t, "create_browser", "instance", sid, InstOf(sid),
                                    NoCtx, NoPage))
          ELSE /\ loc' = [loc EXCEPT ![t].op = "create_browser", ![t].sid = sid]
               /\ Goto(t, "cb_launch")
               /\ UNCHANGED <<mlock, last_activity, is_active>>
    /\ UNCHANGED <<now, constructed, inst_context, tabs, closed, ilock, engineVars, gwVars,
                   mgrState, stale, recency, evicted>>

\* launch() has returned a browser; self._browser_refs[session_id] = browser;
\* browser.new_context() is awaited
Launched(t) ==
    LET p == Len(procs) + 1 IN
    /\ procs' = Append(procs, loc[t].sid)
    /\ browser_refs' = od_set(browser_refs, [id |-> loc[t].sid, proc |-> p])
    /\ loc' = [loc EXCEPT ![t].proc = p]
    /\ Goto(t, "cb_new_context")
    /\ UNCHANGED mlock

\* chromium.launch(channel=...) returns or raises (then the except clause
\* runs, the locals keep that the launch raised, and the fallback launch is
\* awaited)
SurfaceLaunchFailure(t, label) ==
    Raise(t, MResult(t, "launch", "raised", loc[t].sid, NoInst, NoCtx, NoPage))

AwaitFallback(t, label) ==
    /\ loc' = [loc EXCEPT ![t].res = "raised"]
    /\ Goto(t, label)

create_browser_launch(t) ==
    /\ pc[t] = "cb_launch"
    /\ \E ok \in BOOLEAN :
          IF ok /\ Len(procs) < MaxLaunch
          THEN Launched(t)
          ELSE /\ AwaitFallback(t, "cb_fallback")
               /\ UNCHANGED <<procs, browser_refs, mlock>>
    /\ UNCHANGED <<now, instVars, ctx_browser, closed_ctx, closed_procs, gwVars, running,
                   playwright, cleanup_task, browsers, cancel_req, stale, recency, evicted>>

\* the fallback chromium.launch() returns or raises
create_browser_fallback(t) ==
    /\ pc[t] = "cb_fallback"
    /\ \E ok \in BOOLEAN :
          IF ok /\ Len(procs) < MaxLaunch
          THEN Launched(t)
          ELSE /\ mlock' = Release(mlock)
               /\ Raise(t, MResult(t, "create_browser", "raised", loc[t].sid, NoInst,
                                   NoCtx, NoPage))
               /\ UNCHANGED <<procs, browser_refs>>
    /\ UNCHANGED <<now, instVars, ctx_browser, closed_ctx, closed_procs, gwVars, running,
                   playwright, cleanup_task, browsers, cancel_req, stale, recency, evicted>>

\* browser.new_context() returns: the BrowserInstance is constructed and
\* stored in _browsers; or it raises
create_browser_new_context(t) ==
    LET sid == loc[t].sid
        p == loc[t].proc
        c == NewContextId(ctx_browser)
    IN
    /\ pc[t] = "cb_new_context"
    /\ mlock' = Release(mlock)
    /\ \E ok \in BOOLEAN :
          IF ok /\ Len(ctx_browser) < MaxCtx
          THEN /\ ctx_browser' = Append(ctx_browser, p)
               /\ constructed' = [constructed EXCEPT ![p] = TRUE]
               /\ inst_context' = [inst_context EXCEPT ![p] = c]
               /\ last_activity' = [last_activity EXCEPT ![p] = now]
               /\ is_active' = [is_active EXCEPT ![p] = TRUE]
               /\ browsers' = od_set(browsers, [id |-> sid, inst |-> p])
               /\ Return(t, MResult(t, "create_browser", "instance", sid, p, c, NoPage))
          ELSE /\ Raise(t, MResult(t, "create_browser", "raised", sid, NoInst, NoCtx,
                                   NoPage))
               /\ UNCHANGED <<ctx_browser, constructed, inst_context, last_activity,
                              is_active, browsers>>
    /\ UNCHANGED <<now, tabs, closed, ilock, closed_ctx, procs, closed_procs, gwVars,
                   running, playwright, cleanup_task, browser_refs, cancel_req, stale,
                   recency, evicted>>

\* ---- get_browser -------------------------------------------------------
\* instance and not instance._closed
IsRegistered(b) == b # NoInst
IsLive(b) == b # NoInst /\ ~closed[b]

get_browser_body(t) ==
    /\ MEnters(t, "get_browser")
    /\ mlock' = Release(mlock)
    /\ \E sid \in SidArgs(t) :
          LET b == InstOf(sid) IN
          IF IsLive(b)
          THEN /\ UpdateActivity(b)
               /\ Return(t, MResult(t, "get_browser", "instance", sid, b, NoCtx, NoPage))
          ELSE /\ Return(t, MResult(t, "get_browser", "None", sid, NoInst, NoCtx, NoPage))
               /\ UNCHANGED <<last_activity, is_active>>
    /\ UNCHANGED <<now, constructed, inst_context, tabs, closed, ilock, engineVars, gwVars,
                   mgrState, stale, recency, evicted>>

\* ---- list_sessions -----------------------------------------------------
\* the stats of an instance stand for the instance
list_sessions_body(t) ==
    /\ MEnters(t, "list_sessions")
    /\ mlock' = Release(mlock)
    /\ Return(t, [MResult(t, "list_sessions", "list", NoSession, NoInst, NoCtx, NoPage)
                    EXCEPT !.items = SelectSeq(browsers, LAMBDA e : IsLive(e.inst))])
    /\ UNCHANGED <<now, instVars, engineVars, gwVars, mgrState, stale, recency, evicted>>

\* ---- get_or_create_browser ---------------------------------------------
\* get_browser() has returned: its instance is returned, or create_browser()
\* is called (it takes the lock again) and its outcome is the outcome
get_or_create_browser_got(t) ==
    /\ pc[t] = "goc_got"
    /\ IF loc[t].res = "instance"
       THEN /\ Return(t, MResult(t, "get_or_create_browser", "instance", loc[t].sid,
                                 loc[t].inst, NoCtx, NoPage))
            /\ UNCHANGED mlock
       ELSE /\ mlock' = Acquire(mlock, t)
            /\ loc' = [loc EXCEPT ![t].op = "create_browser"]
            /\ Goto(t, "m_locked")
    /\ UNCHANGED <<now, instVars, engineVars, gwVars, mgrState, stale, recency, evicted>>

\* ---- close_browser -----------------------------------------------------
\* "m_locked": the instance is popped and instance.close() is awaited, or
\* False is returned; "xb_inst_closed": instance.close() has returned and the
\* browser reference is popped; "xb_ref_close": browser.close() returns or
\* raises (logged) and True is returned
close_browser_step(t) ==
    /\ MEnters(t, "close_browser") \/ pc[t] \in {"xb_inst_closed", "xb_ref_close"}
    /\ IF pc[t] = "m_locked"
       THEN \E sid \in SidArgs(t) :
              IF HasKey(browsers, sid)
              THEN /\ browsers' = od_pop(browsers, sid)
                   /\ stale' = stale \cup ProcsOf(sid)
                   /\ CallClose(t, InstOf(sid), "xb_inst_closed",
                                [loc[t] EXCEPT !.sid = sid])
                   /\ UNCHANGED <<mlock, browser_refs, closed_procs>>
              ELSE /\ mlock' = Release(mlock)
                   /\ Return(t, MResult(t, "close_browser", "False", sid, NoInst, NoCtx,
                                        NoPage))
                   /\ UNCHANGED <<browsers, stale, ilock, browser_refs, closed_procs>>
       ELSE IF pc[t] = "xb_inst_closed" /\ HasKey(browser_refs, loc[t].sid)
       THEN /\ browser_refs' = od_pop(browser_refs, loc[t].sid)
            /\ loc' = [loc EXCEPT ![t].proc = RefOf(loc[t].sid)]
            /\ Goto(t, "xb_ref_close")
            /\ UNCHANGED <<mlock, browsers, stale, ilock, closed_procs>>
       ELSE /\ mlock' = Release(mlock)
            /\ \E ok \in BOOLEAN :
                  /\ closed_procs' = IF pc[t] = "xb_ref_close" /\ ok
                                     THEN closed_procs \cup {loc[t].proc}
                                     ELSE closed_procs
                  /\ Return(t, [MResult(t, "close_browser", "True", loc[t].sid, loc[t].inst,
                                        NoCtx, NoPage)
                                  EXCEPT !.logged = pc[t] = "xb_ref_close" /\ ~ok])
            /\ UNCHANGED <<browsers, stale, ilock, browser_refs>>
    /\ UNCHANGED <<now, constructed, inst_context, tabs, last_activity, is_active, closed,
                   ctx_browser, closed_ctx, procs, gwVars, running, playwright,
                   cleanup_task, cancel_req, recency, evicted>>

\* ---- the sweep task: _cleanup_inactive_loop ----------------------------
\* "sw_sleep": the task is new, or it evaluated "while self._running" and
\* asyncio.sleep() is awaited.  It resumes: the loop ends if the manager was
\* stopped, and calls _cleanup_inactive() otherwise
sweep_loop(s) ==
    /\ pc[s] = "sw_sleep"
    /\ s \notin cancel_req
    /\ IF ~running
       THEN /\ pc' = [pc EXCEPT ![s] = "done"]
            /\ loc' = [loc EXCEPT ![s] = NoLocals]
            /\ UNCHANGED mlock
       ELSE /\ pc' = [pc EXCEPT ![s] = "m_locked"]
            /\ mlock' = Acquire(mlock, s)
            /\ UNCHANGED loc
    /\ result' = NoResult
    /\ UNCHANGED <<now, stack, instVars, engineVars, gwVars, mgrState, stale, recency,
                   evicted>>

\* the loop of _cleanup_inactive goes to the next session of to_close: the
\* instance is popped and instance.close() is awaited; after the last one the
\* lock is left and the loop of the task goes on ("while self._running")
\* a loop in which an error of the cycle ends the task
AfterCycleUncaught(logged) == IF running /\ ~logged THEN "sw_sleep" ELSE "done"

\* where the task goes when a cycle has ended, with an error of the cycle
\* caught and logged or without one: "while self._running"
AfterCycle(logged) == IF running THEN "sw_sleep" ELSE "done"

SweepNext(s, queue, logged) ==
    IF queue = <<>>
    THEN /\ mlock' = Release(mlock)
         /\ pc' = [pc EXCEPT ![s] = AfterCycle(logged)]
         /\ loc' = [loc EXCEPT ![s] = IF AfterCycle(logged) = "sw_sleep"
                                      THEN MStart("_cleanup_inactive", NoSession)
                                      ELSE NoLocals]
         /\ result' = [MResult(s, "_cleanup_inactive", "None", NoSession, NoInst, NoCtx,
                               NoPage) EXCEPT !.logged = logged]
         /\ UNCHANGED <<stack, browsers, stale, ilock>>
    ELSE LET sid == Head(queue).id IN
         /\ browsers' = od_pop(browsers, sid)
         /\ stale' = stale \cup ProcsOf(sid)
         /\ mlock' = mlock
         /\ IF HasKey(browsers, sid)
            THEN CallClose(s, InstOf(sid), "sw_inst_closed",
                           [loc[s] EXCEPT !.sid = sid, !.queue = Tail(queue)])
            ELSE /\ pc' = [pc EXCEPT ![s] = "sw_inst_closed"]
                 /\ loc' = [loc EXCEPT ![s].sid = sid, ![s].queue = Tail(queue)]
                 /\ result' = NoResult
                 /\ UNCHANGED <<stack, ilock>>

\* _cleanup_inactive.  "m_locked": the idle sessions are marked at
\* current_time and the first one is closed; "sw_inst_closed":
\* instance.close() has returned and the browser reference is popped;
\* "sw_ref_close": browser.close() returns or raises (logged)
cleanup_step(s) ==
    /\ MEnters(s, "_cleanup_inactive")
         \/ (pc[s] \in {"sw_inst_closed", "sw_ref_close"} /\ s \notin cancel_req)
    /\ IF pc[s] = "m_locked"
       THEN /\ SweepNext(s, ToClose(now), FALSE)
            /\ UNCHANGED <<browser_refs, closed_procs>>
       ELSE IF pc[s] = "sw_inst_closed" /\ HasKey(browser_refs, loc[s].sid)
       THEN /\ browser_refs' = od_pop(browser_refs, loc[s].sid)
            /\ loc' = [loc EXCEPT ![s].proc = RefOf(loc[s].sid)]
            /\ Goto(s, "sw_ref_close")
            /\ UNCHANGED <<mlock, browsers, stale, ilock, closed_procs>>
       ELSE /\ \E ok \in BOOLEAN :
                  /\ closed_procs' = IF pc[s] = "sw_ref_close" /\ ok
                                     THEN closed_procs \cup {loc[s].proc}
                                     ELSE closed_procs
                  /\ SweepNext(s, loc[s].queue, pc[s] = "sw_ref_close" /\ ~ok)
            /\ UNCHANGED browser_refs
    /\ UNCHANGED <<now, constructed, inst_context, tabs, last_activity, is_active, closed,
                   ctx_browser, closed_ctx, procs, gwVars, running, playwright,
                   cleanup_task, cancel_req, recency, evicted>>

\* the task resumes with CancelledError: it passes every "except Exception",
\* leaves the "async with" blocks and is caught by the loop, which ends
sweep_cancelled(s) ==
    /\ s \in cancel_req
    /\ pc[s] \notin {"unborn", "done"}
    /\ cancel_req' = cancel_req \ {s}
    /\ mlock' = Unwind(mlock, s)
    /\ ilock' = [b \in Insts |-> Unwind(ilock[b], s)]
    /\ pc' = [pc EXCEPT ![s] = "done"]
    /\ stack' = [stack EXCEPT ![s] = <<>>]
    /\ loc' = [loc EXCEPT ![s] = NoLocals]
    /\ result' = MResult(s, "_cleanup_inactive_loop", "cancelled", NoSession, NoInst,
                         NoCtx, NoPage)
    /\ UNCHANGED <<now, constructed, inst_context, tabs, last_activity, is_active, closed,
                   engineVars, gwVars, running, playwright, cleanup_task, browsers,
                   browser_refs, stale, recency, evicted>>

\* ---- stop --------------------------------------------------------------
\* up to the first await: nothing if not running; else _running is cleared,
\* the sweep task is cancelled and awaited, or (no task) the lock is taken
stop_begin(t) ==
    /\ pc[t] = "idle"
    /\ IF ~running
       THEN /\ Return(t, MResult(t, "stop", "noop", NoSession, NoInst, NoCtx, NoPage))
            /\ UNCHANGED <<running, cancel_req, mlock>>
       ELSE /\ running' = FALSE
            /\ IF cleanup_task # NoTask
               THEN /\ cancel_req' = IF pc[cleanup_task] = "done" THEN cancel_req
                                     ELSE cancel_req \cup {cleanup_task}
                    /\ loc' = [loc EXCEPT ![t] = [MStart("stop", NoSession)
                                                    EXCEPT !.awaits = cleanup_task]]
                    /\ Goto(t, "st_await")
                    /\ UNCHANGED mlock
               ELSE /\ mlock' = Acquire(mlock, t)
                    /\ loc' = [loc EXCEPT ![t] = MStart("stop", NoSession)]
                    /\ Goto(t, "m_locked")
                    /\ UNCHANGED cancel_req
    /\ UNCHANGED <<now, instVars, engineVars, gwVars, playwright, cleanup_task, browsers,
                   browser_refs, stale, recency, evicted>>

\* "await self._cleanup_task" returns when the task has ended;
\* self._cleanup_task = None; then the lock is taken
stop_awaited(t) ==
    /\ pc[t] = "st_await"
    /\ pc[loc[t].awaits] = "done"
    /\ cleanup_task' = NoTask
    /\ mlock' = Acquire(mlock, t)
    /\ loc' = [loc EXCEPT ![t].awaits = NoTask]
    /\ Goto(t, "m_locked")
    /\ UNCHANGED <<now, instVars, engineVars, gwVars, running, playwright, browsers,
                   browser_refs, cancel_req, stale, recency, evicted>>

\* stop() has closed the browser references (or there is none):
\* _browser_refs.clear(); playwright.stop() is awaited if it is set, else the
\* lock is left and stop() returns
StopRuntime(t) ==
    /\ browser_refs' = <<>>
    /\ IF playwright
       THEN /\ Goto(t, "st_pw")
            /\ UNCHANGED <<loc, mlock>>
       ELSE /\ mlock' = Release(mlock)
            /\ Return(t, MResult(t, "stop", "stopped", NoSession, NoInst, NoCtx, NoPage))

\* stop() has closed the instances (or there is none): _browsers.clear();
\* the first browser.close() of the loop over _browser_refs is awaited
StopRefs(t) ==
    /\ browsers' = <<>>
    /\ stale' = stale \cup UNION {ProcsOf(browsers[k].id) : k \in 1..Len(browsers)}
    /\ UNCHANGED ilock
    /\ IF browser_refs # <<>>
       THEN /\ loc' = [loc EXCEPT ![t].queue = browser_refs]
            /\ Goto(t, "st_ref_close")
            /\ UNCHANGED <<browser_refs, mlock>>
       ELSE StopRuntime(t)

\* the body of stop() inside the lock.  "m_locked": the loop over a snapshot
\* of _browsers awaits the first instance.close(); "st_inst_closed": it has
\* returned, the loop goes on; "st_ref_close": a browser.close() returns or
\* raises (logged); "st_pw": playwright.stop() returns or raises (logged),
\* _playwright is cleared, the lock is left and stop() returns
stop_step(t) ==
    /\ (MEnters(t, "stop") /\ loc[t].op = "stop")
         \/ pc[t] \in {"st_inst_closed", "st_ref_close", "st_pw"}
    /\ IF pc[t] \in {"m_locked", "st_inst_closed"}
       THEN LET queue == IF pc[t] = "m_locked" THEN browsers ELSE loc[t].queue IN
            /\ IF queue # <<>>
               THEN /\ CallClose(t, Head(queue).inst, "st_inst_closed",
                                 [loc[t] EXCEPT !.op = "stop", !.queue = Tail(queue)])
                    /\ UNCHANGED <<browsers, stale, browser_refs, mlock>>
               ELSE StopRefs(t)
            /\ UNCHANGED <<closed_procs, playwright>>
       ELSE IF pc[t] = "st_ref_close"
       THEN /\ \E ok \in BOOLEAN :
                  /\ closed_procs' = IF ok THEN closed_procs \cup {Head(loc[t].queue).proc}
                                     ELSE closed_procs
                  /\ IF Len(loc[t].queue) > 1
                     THEN /\ loc' = [loc EXCEPT ![t].queue = Tail(@)]
                          /\ result' = Logged(ok)
                          /\ UNCHANGED <<pc, stack, browser_refs, mlock>>
                     ELSE StopRuntime(t)
            /\ UNCHANGED <<browsers, stale, ilock, playwright>>
       ELSE /\ playwright' = FALSE
            /\ mlock' = Release(mlock)
            /\ \E ok \in BOOLEAN :
                  Return(t, [MResult(t, "stop", "stopped", NoSession, NoInst, NoCtx, NoPage)
                               EXCEPT !.logged = ~ok])
            /\ UNCHANGED <<browsers, stale, ilock, browser_refs, closed_procs>>
    /\ UNCHANGED <<now, constructed, inst_context, tabs, last_activity, is_active, closed,
                   ctx_browser, closed_ctx, procs, gwVars, running, cleanup_task,
                   cancel_req, recency, evicted>>

(***************************************************************************)
(* The session-routed tool request of the server                          *)
(* (src/src/server.py, _execute_tool_isolated), and a holder of an         *)
(* instance that tears it down itself.                                     *)
(***************************************************************************)
\* browser_manager.get_subagent_browser(session_id): get_or_create_browser()
\* calls get_browser()
tool_request(t) ==
    /\ pc[t] = "idle"
    /\ \E sid \in Sessions : loc' = [loc EXCEPT ![t] = MStart("get_browser", sid)]
    /\ stack' = [stack EXCEPT ![t] = <<"goc_got", "tl_browser">>]
    /\ mlock' = Acquire(mlock, t)
    /\ pc' = [pc EXCEPT ![t] = "m_locked"]
    /\ result' = NoResult
    /\ UNCHANGED <<now, instVars, engineVars, gwVars, mgrState, stale, recency, evicted>>

\* "tl_browser": tabs = await browser_instance.list_tabs();
\* "tl_tabs": get_tab(first key) if there are tabs, else create_tab()
tool_page(t) ==
    LET b == loc[t].inst IN
    /\ pc[t] \in {"tl_browser", "tl_tabs"}
    /\ ilock' = [ilock EXCEPT ![b] = Acquire(@, t)]
    /\ pc' = [pc EXCEPT ![t] = "locked"]
    /\ IF pc[t] = "tl_browser"
       THEN /\ loc' = [loc EXCEPT ![t].op = "list_tabs"]
            /\ stack' = [stack EXCEPT ![t] = <<"tl_tabs">> \o @]
       ELSE /\ loc' = [loc EXCEPT ![t].op = IF loc[t].todo # <<>> THEN "get_tab"
                                            ELSE "create_tab",
                                  ![t].tab = IF loc[t].todo # <<>> THEN loc[t].todo[1].id
                                             ELSE NoTab,
                                  ![t].todo = <<>>]
            /\ stack' = [stack EXCEPT ![t] = <<"tl_work">> \o @]
    /\ result' = NoResult
    /\ UNCHANGED <<now, gwVars, mgrVars, constructed, inst_context, tabs, last_activity,
                   is_active, closed, engineVars, recency, evicted>>

\* the tool's work on the page returns or raises (it raises if get_tab()
\* returned None); finally: browser_instance.update_activity()
tool_done(t) ==
    LET b == loc[t].inst IN
    /\ pc[t] = "tl_work"
    /\ UpdateActivity(b)
    /\ \E ok \in (IF loc[t].page = NoPage THEN {FALSE} ELSE BOOLEAN) :
          IF ok
          THEN Return(t, MResult(t, "tool", "ok", loc[t].sid, b, NoCtx, loc[t].page))
          ELSE Raise(t, MResult(t, "tool", "raised", loc[t].sid, b, NoCtx, loc[t].page))
    /\ UNCHANGED <<now, gwVars, mgrVars, constructed, inst_context, tabs, closed, ilock,
                   engineVars, recency, evicted>>

\* get_or_create_browser(session_id) is called: it calls get_browser()
get_or_create_browser_call(t) ==
    /\ pc[t] = "idle"
    /\ \E sid \in Sessions : loc' = [loc EXCEPT ![t] = MStart("get_browser", sid)]
    /\ stack' = [stack EXCEPT ![t] = <<"goc_got">>]
    /\ mlock' = Acquire(mlock, t)
    /\ pc' = [pc EXCEPT ![t] = "m_locked"]
    /\ result' = NoResult
    /\ UNCHANGED <<now, instVars, engineVars, gwVars, mgrState, stale, recency, evicted>>

\* get_subagent_manager() has constructed and started the manager: it is
\* running and its sweep task sleeps; there is no session
Started ==
    /\ now = 0
    /\ _subagent_manager = TRUE
    /\ pc = [t \in AllTasks |-> IF t \in Callers THEN "idle"
                                ELSE IF t = "sweep1" THEN "sw_sleep" ELSE "unborn"]
    /\ loc = [t \in AllTasks |-> IF t = "sweep1" THEN MStart("_cleanup_inactive", NoSession)
                                 ELSE NoLocals]
    /\ stack = [t \in AllTasks |-> <<>>]
    /\ constructed = [b \in Insts |-> FALSE]
    /\ inst_context = [b \in Insts |-> NoCtx]
    /\ tabs = [b \in Insts |-> <<>>]
    /\ last_activity = [b \in Insts |-> 0]
    /\ is_active = [b \in Insts |-> FALSE]
    /\ closed = [b \in Insts |-> FALSE]
    /\ ilock = [b \in Insts |-> FreeLock]
    /\ ctx_browser = <<>>
    /\ closed_ctx = {}
    /\ procs = <<>>
    /\ closed_procs = {}
    /\ GatewayUnused
    /\ running = TRUE
    /\ playwright = TRUE
    /\ cleanup_task = "sweep1"
    /\ browsers = <<>>
    /\ browser_refs = <<>>
    /\ mlock = FreeLock
    /\ cancel_req = {}
    /\ stale = {}
    /\ recency = [b \in Insts |-> <<>>]
    /\ evicted = NoEviction
    /\ result = NoResult

(***************************************************************************)
(* SpecMgr: the sessions of a started manager are created, looked up,      *)
(* closed and swept, and the manager is stopped.                           *)
(***************************************************************************)
LifecycleSteps(t) ==
    \/ manager_call(t)
    \/ create_browser_enter(t)
    \/ create_browser_launch(t)
    \/ create_browser_fallback(t)
    \/ create_browser_new_context(t)
    \/ get_browser_body(t)
    \/ get_or_create_browser_call(t)
    \/ get_or_create_browser_got(t)
    \/ close_browser_step(t)
    \/ stop_begin(t)
    \/ stop_awaited(t)
    \/ stop_step(t)
    \/ instance_close_step(t)

SweepSteps(s) ==
    \/ sweep_loop(s)
    \/ cleanup_step(s)
    \/ sweep_cancelled(s)
    \/ instance_close_step(s)

NextMgr ==
    \/ Tick
    \/ \E t \in Callers : LifecycleSteps(t)
    \/ \E s \in SweepTasks : SweepSteps(s)

SpecMgr == Started /\ [][NextMgr]_vars

(***************************************************************************)
(* SpecSess: concurrent session-routed tool requests on a started manager, *)
(* all within one reading of the clock and while no session is closed.     *)
(***************************************************************************)
SessionSteps(t) ==
    \/ tool_request(t)
    \/ get_browser_body(t)
    \/ get_or_create_browser_got(t)
    \/ create_browser_enter(t)
    \/ create_browser_launch(t)
    \/ create_browser_fallback(t)
    \/ create_browser_new_context(t)
    \/ tool_page(t)
    \/ tool_done(t)
    \/ list_tabs_body(t)
    \/ get_tab_body(t)
    \/ create_tab_enter(t)
    \/ create_tab_new_page(t)
    \/ create_tab_viewport(t)

NextSess == \E t \in Callers : SessionSteps(t)

SpecSess == Started /\ [][NextSess]_vars

(***************************************************************************)
(* Properties of one BrowserInstance (SpecInst).                           *)
(***************************************************************************)
\* the task is inside close(): its call of close_all_tabs() will return to
\* close(), or has returned and context.close() is awaited
InClose(t) == pc[t] = "cl_ctx" \/ "cl_ctx" \in Range(stack[t])

\* C1. Tab cap invariant: in every reachable state of an instance, whatever
\* the interleaving of the callers' create_tab, get_tab and close_tab calls (so
\* also after each create_tab returns and whenever the lock is free), the
\* registry holds at most MAX_TABS tabs.
C1_TabCap == \A b \in Insts : Len(tabs[b]) <= MAX_TABS

\* a create_tab call has just returned after evicting a tab, and the registry
\* is full
C1_Witness ==
    /\ result.fn = "create_tab"
    /\ result.res = "ok"
    /\ result.evicted # NoPage
    /\ Len(tabs[result.inst]) = MAX_TABS

\* C2. LRU correctness: the order of the registry is the recency order
\* (registration order, changed only by get_tab hits moving a tab to the end),
\* and the tab an eviction removes is the first of that order.
C2_LruEviction ==
    /\ \A b \in Insts : Keys(tabs[b]) = recency[b]
    /\ evicted.inst # NoInst => evicted.id = evicted.lru

\* an eviction has just removed a tab although a tab created before it is
\* still registered: that older tab was touched by get_tab (create A, create B,
\* get(A), create C evicts B)
C2_Witness ==
    /\ evicted.inst # NoInst
    /\ Len(tabs[evicted.inst]) = MAX_TABS - 1
    /\ \E k \in 1..Len(tabs[evicted.inst]) :
          /\ tabs[evicted.inst][k].created_at < evicted.created_at
          /\ tabs[evicted.inst][k].last_accessed >= evicted.created_at

\* C5. Idempotent close: a close() call on an instance that is already closed
\* is a no-op that returns; so a task that calls a closed instance is never
\* queued behind a lock holder that cannot release the lock.
C5_SecondCloseReturns ==
    \A b \in Insts :
        closed[b] /\ (\E t \in Range(ilock[b].waiters) : t # ilock[b].holder)
            => ~SelfDeadlocked(ilock[b], ilock[b].holder)

\* C6. close() on an open instance returns: a task inside close() is never
\* waiting for the instance lock while it holds that lock itself (nothing
\* could wake it).
C6_CloseReturns ==
    \A t \in AllTasks : InClose(t) => ~SelfDeadlocked(ilock[loc[t].inst], t)

(***************************************************************************)
(* Properties of the gateway (SpecGw).                                     *)
(***************************************************************************)
\* the caller is inside its scope: the page has been yielded and the context
\* has not been closed and deregistered yet
InScope(t) == pc[t] \in {"ic_scope", "ic_close"}

\* from the creation of the context to the end of the cleanup
InIsolatedContext(t) == pc[t] \in {"ic_new_context", "ic_new_page", "ic_scope", "ic_close"}

\* C3. Isolated-context mutual exclusion: no two isolated_context() callers
\* are inside their scopes at the same time, and a caller holds the gateway
\* mutex from before its context is created until its cleanup is done.
C3_ScopesExclusive ==
    /\ \A t1, t2 \in AllTasks : InScope(t1) /\ InScope(t2) => t1 = t2
    /\ \A t \in AllTasks : InIsolatedContext(t) => Owns(glock, t)

\* one caller is inside its scope while another caller of isolated_context()
\* or create_isolated_page() waits for the mutex
C3_Witness ==
    \E t1, t2 \in AllTasks :
        /\ InScope(t1)
        /\ pc[t2] = "g_locked"
        /\ t2 \in Range(glock.waiters)

(***************************************************************************)
(* Properties of the SubAgentBrowserManager (SpecMgr, SpecSess).           *)
(***************************************************************************)
\* the task waits for the lock of an instance while it holds that lock
Stuck(t) == \E b \in Insts : SelfDeadlocked(ilock[b], t)

\* the task is inside stop()
InStop(t) ==
    \/ pc[t] \in {"st_await", "st_inst_closed", "st_ref_close", "st_pw"}
    \/ pc[t] = "m_locked" /\ loc[t].op = "stop"
    \/ "st_inst_closed" \in Range(stack[t])

\* C4. Shutdown: a stop() call, whatever the sweep task and the other callers
\* are doing and however many sessions are live, never deadlocks (it never
\* waits for a lock it holds itself), and when it has returned _running is
\* false, the sweep handle and the runtime are cleared and the session map is
\* empty.
C4_StopReturns ==
    /\ \A t \in Callers : InStop(t) => ~Stuck(t)
    /\ result.fn = "stop" /\ result.res = "stopped"
          => ~running /\ cleanup_task = NoTask /\ ~playwright /\ browsers = <<>>

\* C7. Idle sweep: a sweep cycle that finds idle sessions runs to its end (the
\* sweep task never waits for a lock it holds itself), so that every idle
\* session is removed and its process handle closed.
C7_SweepCycleCompletes == \A s \in SweepTasks : ~Stuck(s)

\* the sessions with more than one entry in _browsers
Duplicated == {sid \in Sessions : Cardinality({k \in 1..Len(browsers) : browsers[k].id = sid}) > 1}

\* C8. Get-or-create idempotence: a create_browser(X) call that returns an
\* instance leaves exactly one entry for X, holding that instance; and a
\* create_browser(X) call made when X is registered returns the registered,
\* live instance, launches no process, leaves both maps as they are and
\* changes nothing but that instance's last_activity.
C8_SecondCreate ==
    /\ [](result.fn = "create_browser" /\ result.res = "instance"
            => InstOf(result.sid) = result.inst /\ Duplicated = {})
    /\ [][\A sid \in Sessions :
            /\ result'.fn = "create_browser"
            /\ result'.res = "instance"
            /\ result'.sid = sid
            /\ InstOf(sid) # NoInst
            => /\ result'.inst = InstOf(sid)
               /\ ~closed[InstOf(sid)]
               /\ last_activity' = [last_activity EXCEPT ![InstOf(sid)] = now]
               /\ UNCHANGED <<procs, browsers, browser_refs, constructed, inst_context,
                              tabs, is_active, closed, ctx_browser, closed_procs>>]_vars

\* a second create_browser(X) has just returned the instance that the first
\* one created at an earlier time, and has updated its last_activity
C8_Witness ==
    /\ result.fn = "create_browser"
    /\ result.res = "instance"
    /\ result.ctx = NoCtx
    /\ Len(procs) = 1
    /\ now > 0
    /\ last_activity[result.inst] = now

\* the processes launched for sid since sid was last removed from _browsers
LaunchedFor(sid) == ProcsOf(sid) \ stale

C10_SessionIsolation ==
    /\ \A k1, k2 \in 1..Len(browsers) : k1 # k2 => browsers[k1].inst # browsers[k2].inst
    /\ \A b1, b2 \in Insts :
          constructed[b1] /\ constructed[b2] /\ b1 # b2
          => /\ inst_context[b1] # inst_context[b2]
             /\ \A k1 \in 1..Len(tabs[b1]), k2 \in 1..Len(tabs[b2]) :
                   tabs[b1][k1].page # tabs[b2][k2].page
    /\ \A b \in Insts : \A k \in 1..Len(tabs[b]) :
          PageCtx(tabs[b][k].page) = inst_context[b]
    /\ result.fn = "list_tabs"
          => \A k \in 1..Len(result.items) :
                PageCtx(result.items[k].page) = inst_context[result.inst]

\* list_tabs() of one session has just returned a tab while the instance of
\* another session holds a tab too
C10_Witness ==
    /\ result.fn = "list_tabs"
    /\ result.items # <<>>
    /\ \E b \in Insts : b # result.inst /\ tabs[b] # <<>>

\* the lock is released as far as task t is concerned
Left(l, t) == l.holder # t /\ t \notin Range(l.waiters)

\* C11. Guaranteed release: every exit from an isolated_context() scope (the
\* block returned, raised or was cancelled, and context.close() returned,
\* raised or was cancelled) removes the context from _active_contexts and
\* releases the gateway lock; an exception of context.close() is logged and
\* the caller gets the outcome of its own block.  Hence the only contexts
\* registered without having been handed out by create_isolated_page() are
\* those of the scopes that are open.
C11_GuaranteedRelease ==
    /\ [](\A c \in active_contexts \ issued :
            \E t \in Callers : InScope(t) /\ loc[t].ctx = c /\ Owns(glock, t))
    /\ [][\A t \in Callers :
            pc[t] = "ic_close" /\ pc'[t] # "ic_close"
            => /\ loc[t].ctx \notin active_contexts'
               /\ Left(glock', t)
               /\ pc'[t] = "idle"
               /\ result'.task = t /\ result'.fn = "isolated_context"
               /\ result'.ctx = loc[t].ctx
               /\ result'.res \in {"exited", "raised", "cancelled"}
               /\ result'.res = "exited" => loc[t].res = "return"
               /\ result'.res = "raised" => loc[t].res = "raise"
               /\ loc[t].res = "cancel" => result'.res = "cancelled"
               /\ result'.logged => loc[t].ctx \notin closed_ctx']_vars

\* the caller's block raised, context.close() raised too, and the scope has
\* been left
C11_Witness ==
    /\ result.fn = "isolated_context"
    /\ result.res = "raised"
    /\ result.page # NoPage
    /\ result.logged
    /\ result.ctx \notin active_contexts
    /\ Left(glock, result.task)


(***************************************************************************)
(* SpecUse: the callers of one BrowserInstance, one reading of the clock,  *)
(* where a task that is suspended inside close() can be cancelled (as      *)
(* stop() cancels the sweep task, which runs close() from                  *)
(* _cleanup_inactive): CancelledError passes "except Exception", withdraws *)
(* the pending acquire() and leaves the "async with" blocks.               *)
(***************************************************************************)
close_cancelled(t) ==
    LET b == loc[t].inst IN
    /\ InClose(t)
    /\ pc[t] = "locked"
    /\ t \in Range(ilock[b].waiters)
    /\ ilock' = [ilock EXCEPT ![b] = Unwind(@, t)]
    /\ Raise(t, Result(t, "close", b, "cancelled", NoTab, NoPage, <<>>))
    /\ UNCHANGED <<now, gwVars, mgrVars, constructed, inst_context, tabs, last_activity,
                   is_active, closed, engineVars, recency, evicted>>

NextUse ==
    \E t \in Callers :
        \/ call_instance(t)
        \/ InstanceSteps(t)
        \/ close_cancelled(t)

SpecUse == InitInst /\ [][NextUse]_vars

\* C12. Use-after-close: a create_tab, close_tab or close_all_tabs call whose
\* body runs on an instance whose closed flag is set fails with "instance
\* closed" (and so leaves the registry as it is).
C12_UseAfterCloseFails ==
    /\ result.fn \in {"create_tab", "close_tab", "close_all_tabs"}
    /\ closed[result.inst]
    => result.res = "closed"


\* C13. Total teardown bookkeeping: in every state where the closed flag of an
\* instance is set and no close() call on it is still running, its tab
\* registry is empty.
C13_ClosedMeansEmpty ==
    \A b \in Insts :
        closed[b] /\ (\A t \in AllTasks : InClose(t) => loc[t].inst # b)
        => tabs[b] = <<>>


(***************************************************************************)
(* SpecBoot: isolated contexts are requested from a BrowserManager whose   *)
(* browser process is or is not launched, and start() and create_browser() *)
(* are called on a SubAgentBrowserManager that is constructed and not      *)
(* started, or started.  The sweep task sleeps throughout.                 *)
(***************************************************************************)
InitBoot == InitGw \/ Started

BootSteps(t) ==
    \/ GatewaySteps(t)
    \/ manager_call(t)
    \/ start_enter(t)
    \/ start_playwright(t)
    \/ create_browser_enter(t)
    \/ create_browser_launch(t)
    \/ create_browser_fallback(t)
    \/ create_browser_new_context(t)

NextBoot == \E t \in Callers : BootSteps(t)

SpecBoot == InitBoot /\ [][NextBoot]_vars

\* C14. Not-initialized fails fast: the body of isolated_context() or
\* create_isolated_page() entered while no browser process exists raises
\* "Browser not initialized" in its first step, and the body of
\* create_browser() entered while the manager is not running (the call is not
\* start()) raises "not started" in its first step; the step registers no context and no session,
\* creates no context, launches no process and releases the lock it took.
C14_NotInitializedFailsFast ==
    [][\A t \in Callers :
        /\ pc[t] = "g_locked" /\ Owns(glock, t) /\ ~gw_browser /\ pc'[t] # "g_locked"
           => /\ result'.task = t
              /\ result'.fn \in {"isolated_context", "create_isolated_page"}
              /\ result'.res = "not initialized"
              /\ pc'[t] = "idle"
              /\ Left(glock', t)
              /\ UNCHANGED <<active_contexts, issued, ctx_browser, procs>>
        /\ pc[t] = "m_locked" /\ Owns(mlock, t) /\ ~running
           /\ pc'[t] \notin {"m_locked", "start_pw"}
           => /\ result'.task = t
              /\ result'.fn = "create_browser"
              /\ result'.res = "not started"
              /\ pc'[t] = "idle"
              /\ Left(mlock', t)
              /\ UNCHANGED <<browsers, browser_refs, procs, ctx_browser, constructed>>]_vars

\* create_browser() has just raised "not started" on a manager that was
\* never started, and the manager's lock is free again
C14_Witness ==
    /\ result.fn = "create_browser"
    /\ result.res = "not started"
    /\ ~running
    /\ mlock = FreeLock
    /\ browsers = <<>> /\ browser_refs = <<>> /\ procs = <<>>


\* the sweep tasks that have been created and have not ended
AliveSweeps == {s \in SweepTasks : pc[s] \notin {"unborn", "done"}}

\* C15. start() is idempotent and safe under concurrency: whatever start()
\* calls run one after another or race on a manager that is not running, the
\* runtime is launched and a sweep task is spawned only by a call that finds
\* the manager not running, with no runtime and no sweep task alive, so there
\* is never more than one sweep task, and it is the one _cleanup_task holds; a
\* start() that finds the manager running returns and changes nothing.
C15_StartOnce ==
    /\ [](/\ Cardinality(AliveSweeps) <= 1
          /\ running => playwright /\ AliveSweeps = {cleanup_task}
          /\ ~running => ~playwright /\ AliveSweeps = {} /\ cleanup_task = NoTask)
    /\ [][/\ result'.fn = "start" /\ result'.res = "started"
             => ~running /\ ~playwright /\ AliveSweeps = {}
                /\ running' /\ playwright' /\ Cardinality(AliveSweeps') = 1
          /\ \A t \in Callers :
                pc[t] = "m_locked" /\ Owns(mlock, t) /\ running
                /\ result'.task = t /\ result'.fn = "start"
                => /\ result'.res = "noop"
                   /\ Left(mlock', t)
                   /\ UNCHANGED <<mgrState, engineVars, instVars>>
                   /\ \A s \in SweepTasks : pc'[s] = pc[s]]_vars

\* a second start() has returned at once on the manager that the first one
\* started
C15_Witness ==
    /\ result.fn = "start"
    /\ result.res = "noop"
    /\ running /\ playwright
    /\ Cardinality(AliveSweeps) = 1
    /\ mlock = FreeLock


\* the task is inside close_browser() and awaits instance.close()
InCloseBrowser(t) == "xb_inst_closed" \in Range(stack[t])

\* C16. close_browser(session_id) on a registered session goes on after
\* instance.close() (the task never waits for a lock it holds itself), so
\* that it pops and closes the process handle and returns True.
C16_CloseBrowserReturns == \A t \in Callers : InCloseBrowser(t) => ~Stuck(t)


(***************************************************************************)
(* SpecHold: sessions are created, looked up and listed on a started       *)
(* manager while holders of the instances close them directly.             *)
(***************************************************************************)
\* a task that was handed instance b calls b.close()
holder_close(t) == \E b \in Insts : constructed[b] /\ method_call(t, "close", b)

HoldSteps(t) ==
    \/ manager_call(t)
    \/ create_browser_enter(t)
    \/ create_browser_launch(t)
    \/ create_browser_fallback(t)
    \/ create_browser_new_context(t)
    \/ get_browser_body(t)
    \/ list_sessions_body(t)
    \/ holder_close(t)
    \/ instance_close_step(t)

NextHold ==
    \/ Tick
    \/ \E t \in Callers : HoldSteps(t)

SpecHold == Started /\ [][NextHold]_vars

\* C17. get_browser(session_id) returns an instance only if it is the one
\* registered for session_id and it is not closed, and it has then set the
\* instance's last_activity to now; a get_browser() that returns None found
\* the session unregistered or closed and changed nothing; list_sessions()
\* reports exactly the registered instances that are not closed.
C17_OnlyLiveInstances ==
    /\ [](/\ result.fn = "get_browser" /\ result.res = "instance"
             => /\ result.inst # NoInst
                /\ InstOf(result.sid) = result.inst
                /\ ~closed[result.inst]
                /\ last_activity[result.inst] = now
          /\ result.fn = "list_sessions"
             => /\ \A k \in 1..Len(result.items) : ~closed[result.items[k].inst]
                /\ \A k \in 1..Len(browsers) :
                      ~closed[browsers[k].inst] => browsers[k] \in Range(result.items)
                /\ Range(result.items) \subseteq Range(browsers))
    /\ [][result'.fn = "get_browser" /\ result'.res = "None"
          => /\ InstOf(result'.sid) = NoInst \/ closed[InstOf(result'.sid)]
             /\ UNCHANGED <<mgrState, instVars, engineVars>>]_vars

\* get_browser() has just returned None for a session whose registered
\* instance was closed by a holder
C17_Witness ==
    /\ result.fn = "get_browser"
    /\ result.res = "None"
    /\ InstOf(result.sid) # NoInst
    /\ closed[InstOf(result.sid)]


(***************************************************************************)
(* BrowserManager.stop() (src/src/browser/manager.py): the sub-agent       *)
(* manager is stopped, then the default page, the default context, the     *)
(* browser process, the runtime and the virtual display are closed, each   *)
(* one if its reference is set.                                            *)
(***************************************************************************)
\* a teardown that closes the browser process before the default context
GsNextBrowserFirst(refs, browser) ==
    IF refs.page THEN "gs_page"
    ELSE IF browser THEN "gs_browser"
    ELSE IF refs.context THEN "gs_context"
    ELSE IF refs.playwright THEN "gs_pw"
    ELSE IF refs.xvfb_manager THEN "gs_xvfb"
    ELSE "done"

\* the next await of the teardown, given the references still set
GsNext(refs, browser) ==
    IF refs.page THEN "gs_page"
    ELSE IF refs.context THEN "gs_context"
    ELSE IF browser THEN "gs_browser"
    ELSE IF refs.playwright THEN "gs_pw"
    ELSE IF refs.xvfb_manager THEN "gs_xvfb"
    ELSE "done"

\* a reference has been cleared: the teardown goes to its next await, or
\* stop() returns
GsGo(t, refs, browser, ok) ==
    /\ gw_refs' = refs
    /\ gw_browser' = browser
    /\ IF GsNext(refs, browser) = "done"
       THEN Return(t, [MResult(t, "BrowserManager.stop", "stopped", NoSession, NoInst,
                               NoCtx, NoPage) EXCEPT !.logged = ~ok])
       ELSE /\ pc' = [pc EXCEPT ![t] = GsNext(refs, browser)]
            /\ result' = Logged(ok)
            /\ UNCHANGED <<stack, loc>>

\* stop() is called.  Without a sub-agent manager, or with one that is not
\* running (its stop() returns at once), the teardown starts; otherwise
\* subagent_manager.stop() runs up to its first await
gateway_stop_begin(t) ==
    /\ pc[t] = "idle"
    /\ IF ~gw_refs.subagent_manager \/ ~running
       THEN /\ GsGo(t, [gw_refs EXCEPT !.subagent_manager = FALSE], gw_browser, TRUE)
            /\ UNCHANGED <<running, cancel_req, mlock>>
       ELSE /\ running' = FALSE
            /\ stack' = [stack EXCEPT ![t] = <<"gs_sub_stopped">>]
            /\ result' = NoResult
            /\ IF cleanup_task # NoTask
               THEN /\ cancel_req' = IF pc[cleanup_task] = "done" THEN cancel_req
                                     ELSE cancel_req \cup {cleanup_task}
                    /\ loc' = [loc EXCEPT ![t] = [MStart("stop", NoSession)
                                                    EXCEPT !.awaits = cleanup_task]]
                    /\ pc' = [pc EXCEPT ![t] = "st_await"]
                    /\ UNCHANGED mlock
               ELSE /\ mlock' = Acquire(mlock, t)
                    /\ loc' = [loc EXCEPT ![t] = MStart("stop", NoSession)]
                    /\ pc' = [pc EXCEPT ![t] = "m_locked"]
                    /\ UNCHANGED cancel_req
            /\ UNCHANGED <<gw_browser, gw_refs>>
    /\ UNCHANGED <<now, instVars, engineVars, _subagent_manager, glock, active_contexts, issued, playwright,
                   cleanup_task, browsers, browser_refs, stale, recency, evicted>>

\* "gs_sub_stopped": subagent_manager.stop() has returned and the reference
\* is cleared; "gs_page", "gs_context", "gs_browser", "gs_pw": the close()
\* or stop() awaited returns or raises (logged) and the reference is
\* cleared; "gs_xvfb": xvfb_manager.stop() returns
gateway_stop_step(t) ==
    /\ pc[t] \in {"gs_sub_stopped", "gs_page", "gs_context", "gs_browser", "gs_pw",
                  "gs_xvfb"}
    /\ \E ok \in BOOLEAN :
          /\ closed_procs' = IF pc[t] = "gs_browser" /\ ok
                             THEN closed_procs \cup {SharedBrowser} ELSE closed_procs
          /\ IF pc[t] = "gs_sub_stopped"
             THEN GsGo(t, [gw_refs EXCEPT !.subagent_manager = FALSE], gw_browser, TRUE)
             ELSE IF pc[t] = "gs_page"
             THEN GsGo(t, [gw_refs EXCEPT !.page = FALSE], gw_browser, ok)
             ELSE IF pc[t] = "gs_context"
             THEN GsGo(t, [gw_refs EXCEPT !.context = FALSE], gw_browser, ok)
             ELSE IF pc[t] = "gs_browser"
             THEN GsGo(t, gw_refs, FALSE, ok)
             ELSE IF pc[t] = "gs_pw"
             THEN GsGo(t, [gw_refs EXCEPT !.playwright = FALSE], gw_browser, ok)
             ELSE GsGo(t, [gw_refs EXCEPT !.xvfb_manager = FALSE], gw_browser, TRUE)
    /\ UNCHANGED <<now, instVars, ctx_browser, closed_ctx, procs, _subagent_manager, glock, active_contexts,
                   issued, mgrVars, recency, evicted>>

\* the state after BrowserManager.start(): the browser process, its default
\* context and page and the runtime exist, the sub-agent manager is started,
\* and the virtual display was started if the configuration asks for it
Booted ==
    /\ now = 0
    /\ _subagent_manager = TRUE
    /\ pc = [t \in AllTasks |-> IF t \in Callers THEN "idle"
                                ELSE IF t = "sweep1" THEN "sw_sleep" ELSE "unborn"]
    /\ loc = [t \in AllTasks |-> IF t = "sweep1" THEN MStart("_cleanup_inactive", NoSession)
                                 ELSE NoLocals]
    /\ stack = [t \in AllTasks |-> <<>>]
    /\ constructed = [b \in Insts |-> FALSE]
    /\ inst_context = [b \in Insts |-> NoCtx]
    /\ tabs = [b \in Insts |-> <<>>]
    /\ last_activity = [b \in Insts |-> 0]
    /\ is_active = [b \in Insts |-> FALSE]
    /\ closed = [b \in Insts |-> FALSE]
    /\ ilock = [b \in Insts |-> FreeLock]
    /\ ctx_browser = <<>>
    /\ closed_ctx = {}
    /\ procs = <<>>
    /\ closed_procs = {}
    /\ gw_browser = TRUE
    /\ \E x \in BOOLEAN :
          gw_refs = [subagent_manager |-> TRUE, page |-> TRUE, context |-> TRUE,
                     playwright |-> TRUE, xvfb_manager |-> x]
    /\ glock = FreeLock
    /\ active_contexts = {}
    /\ issued = {}
    /\ running = TRUE
    /\ playwright = TRUE
    /\ cleanup_task = "sweep1"
    /\ browsers = <<>>
    /\ browser_refs = <<>>
    /\ mlock = FreeLock
    /\ cancel_req = {}
    /\ stale = {}
    /\ recency = [b \in Insts |-> <<>>]
    /\ evicted = NoEviction
    /\ result = NoResult

(***************************************************************************)
(* SpecDown: sessions are created on a started BrowserManager, the sweep   *)
(* task runs, and BrowserManager.stop() is called.                         *)
(***************************************************************************)
DownSteps(t) ==
    \/ manager_call(t)
    \/ create_browser_enter(t)
    \/ create_browser_launch(t)
    \/ create_browser_fallback(t)
    \/ create_browser_new_context(t)
    \/ gateway_stop_begin(t)
    \/ gateway_stop_step(t)
    \/ stop_awaited(t)
    \/ stop_step(t)
    \/ instance_close_step(t)

NextDown ==
    \/ Tick
    \/ \E t \in Callers : DownSteps(t)
    \/ \E s \in SweepTasks : SweepSteps(s)

SpecDown == Booted /\ [][NextDown]_vars

\* the task is inside BrowserManager.stop()
InGatewayStop(t) ==
    \/ pc[t] \in {"gs_sub_stopped", "gs_page", "gs_context", "gs_browser", "gs_pw", "gs_xvfb"}
    \/ "gs_sub_stopped" \in Range(stack[t])

\* C18. Orchestrator shutdown never hangs: a task inside BrowserManager.stop()
\* never waits for a lock that it holds itself, whatever sessions are live and
\* whichever close call fails; and when stop() has returned, the page,
\* context, browser, runtime, display and sub-agent manager references are
\* all cleared.
C18_ShutdownNeverHangs ==
    /\ \A t \in Callers : InGatewayStop(t) => ~Stuck(t)
    /\ result.fn = "BrowserManager.stop" /\ result.res = "stopped"
          => ~gw_browser /\ gw_refs = NoRefs


\* C19. Creation-path failures leave nothing half-registered: when
\* create_browser(session_id) has raised (the launch or the context creation
\* failed), session_id is neither in _browsers nor in _browser_refs.
C19_NothingHalfRegistered ==
    result.fn = "create_browser" /\ result.res = "raised"
    => ~HasKey(browsers, result.sid) /\ ~HasKey(browser_refs, result.sid)


(***************************************************************************)
(* BrowserManager.start() and _launch_browser_process()                    *)
(* (src/src/browser/manager.py).  The calls are made without the lock of   *)
(* the BrowserManager.                                                     *)
(***************************************************************************)
\* start() is called: the virtual display is started if the configuration
\* asks for it (its manager object is kept either way), then
\* async_playwright().start() returns, and the channel launch is awaited, or
\* raises
gateway_start_begin(t) ==
    /\ pc[t] = "idle"
    /\ \E use_xvfb \in BOOLEAN, ok \in BOOLEAN :
          LET refs == [gw_refs EXCEPT !.xvfb_manager = @ \/ use_xvfb] IN
          IF ok
          THEN /\ gw_refs' = [refs EXCEPT !.playwright = TRUE]
               /\ loc' = [loc EXCEPT ![t] = [NoLocals EXCEPT !.op = "start"]]
               /\ Goto(t, "lp_channel")
          ELSE /\ gw_refs' = refs
               /\ Raise(t, MResult(t, "BrowserManager.start", "raised", NoSession, NoInst,
                                   NoCtx, NoPage))
    /\ UNCHANGED <<now, instVars, engineVars, mgrVars, gw_browser, _subagent_manager, glock, active_contexts,
                   issued, recency, evicted>>

\* chromium.launch(channel=...) returns: self.browser is the new process and
\* the default context is awaited; or it raises: the except clause awaits the
\* fallback launch
launch_browser_process_channel(t) ==
    /\ pc[t] = "lp_channel"
    /\ \E ok \in BOOLEAN :
          IF ok
          THEN /\ gw_browser' = TRUE
               /\ Goto(t, "lp_context")
               /\ UNCHANGED loc
          ELSE /\ AwaitFallback(t, "lp_fallback")
               /\ UNCHANGED gw_browser
    /\ UNCHANGED <<now, instVars, engineVars, mgrVars, gw_refs, _subagent_manager, glock, active_contexts,
                   issued, recency, evicted>>

\* the references after browser.new_context() and context.new_page(): both
\* return, or new_context() raises, or new_page() raises
DefaultContext(out) ==
    [gw_refs EXCEPT !.context = @ \/ out # "context raised", !.page = @ \/ out = "ok"]

\* the default context and page of the channel launch, inside the try block:
\* an exception of either goes to the same except clause as a failed launch
launch_browser_process_context(t) ==
    /\ pc[t] = "lp_context"
    /\ \E out \in {"ok", "context raised", "page raised"} :
          /\ gw_refs' = DefaultContext(out)
          /\ IF out = "ok" THEN Goto(t, "bs_subagent") ELSE Goto(t, "lp_fallback")
    /\ UNCHANGED <<now, loc, instVars, engineVars, mgrVars, gw_browser, _subagent_manager, glock,
                   active_contexts, issued, recency, evicted>>

\* the fallback chromium.launch() returns: self.browser is the new process
\* (the one of a channel launch that succeeded is no longer referenced); or
\* it raises, and so do _launch_browser_process() and start()
launch_browser_process_fallback(t) ==
    /\ pc[t] = "lp_fallback"
    /\ \E ok \in BOOLEAN :
          IF ok
          THEN /\ gw_browser' = TRUE
               /\ Goto(t, "lp_fb_context")
               /\ UNCHANGED loc
          ELSE /\ Raise(t, MResult(t, "_launch_browser_process", "launch raised",
                                   NoSession, NoInst, NoCtx, NoPage))
               /\ UNCHANGED gw_browser
    /\ UNCHANGED <<now, instVars, engineVars, mgrVars, gw_refs, _subagent_manager, glock, active_contexts,
                   issued, recency, evicted>>

\* the default context and page of the fallback launch, outside any try block
launch_browser_process_fallback_context(t) ==
    /\ pc[t] = "lp_fb_context"
    /\ \E out \in {"ok", "context raised", "page raised"} :
          /\ gw_refs' = DefaultContext(out)
          /\ IF out = "ok"
             THEN /\ Goto(t, "bs_subagent")
                  /\ UNCHANGED loc
             ELSE Raise(t, MResult(t, "_launch_browser_process", "raised", NoSession,
                                   NoInst, NoCtx, NoPage))
    /\ UNCHANGED <<now, instVars, engineVars, mgrVars, gw_browser, _subagent_manager, glock, active_contexts,
                   issued, recency, evicted>>

\* get_subagent_manager().  "bs_subagent": without a singleton one is
\* constructed, stored in the global and its start() is awaited (the call
\* takes the manager's lock); with one, it is returned as it is.
\* "bs_sub_started": the start() of the new singleton has returned.  The
\* manager returned is stored in self.subagent_manager and start() returns
StartSingleton(t) ==
    /\ _subagent_manager' = TRUE
    /\ mlock' = Acquire(mlock, t)
    /\ loc' = [loc EXCEPT ![t] = MStart("start", NoSession)]
    /\ stack' = [stack EXCEPT ![t] = <<"bs_sub_started">> \o @]
    /\ pc' = [pc EXCEPT ![t] = "m_locked"]
    /\ result' = NoResult
    /\ UNCHANGED gw_refs

gateway_start_subagent(t) ==
    /\ pc[t] \in {"bs_subagent", "bs_sub_started"}
    /\ IF pc[t] = "bs_subagent" /\ ~_subagent_manager
       THEN StartSingleton(t)
       ELSE /\ gw_refs' = [gw_refs EXCEPT !.subagent_manager = TRUE]
            /\ Return(t, MResult(t, "BrowserManager.start", "started", NoSession, NoInst,
                                 NoCtx, NoPage))
            /\ UNCHANGED <<_subagent_manager, mlock>>
    /\ UNCHANGED <<now, instVars, engineVars, mgrState, stale, gw_browser, glock,
                   active_contexts, issued, recency, evicted>>

GatewayStartSteps(t) ==
    \/ gateway_start_begin(t)
    \/ launch_browser_process_channel(t)
    \/ launch_browser_process_context(t)
    \/ launch_browser_process_fallback(t)
    \/ launch_browser_process_fallback_context(t)
    \/ gateway_start_subagent(t)

(***************************************************************************)
(* SpecLaunch: browser processes are launched.  The sub-agent manager is   *)
(* started and create_browser() is called on it; the BrowserManager is     *)
(* constructed and start() is called on it.  The sweep task sleeps.        *)
(***************************************************************************)
LaunchSteps(t) ==
    \/ GatewayStartSteps(t)
    \/ manager_call(t)
    \/ create_browser_enter(t)
    \/ create_browser_launch(t)
    \/ create_browser_fallback(t)
    \/ create_browser_new_context(t)

NextLaunch == \E t \in Callers : LaunchSteps(t)

SpecLaunch == Started /\ [][NextLaunch]_vars


\* C20 as stated. Launch fallback: once the launch with the preferred channel
\* has raised inside create_browser() or _launch_browser_process(), the
\* operation raises only in the step where the fallback launch raises.
C20_FailsOnlyIfFallbackFails ==
    [][\A t \in Callers :
        /\ loc[t].res = "raised"
        /\ pc[t] \in {"cb_fallback", "cb_new_context", "lp_fallback", "lp_fb_context"}
        /\ result'.task = t
        /\ result'.res \in {"raised", "launch raised"}
        => pc[t] \in {"cb_fallback", "lp_fallback"}]_vars

\* C20. Launch fallback: when the launch with the preferred channel raises
\* inside create_browser() or _launch_browser_process(), nothing is surfaced
\* and nothing is registered in that step, and the fallback launch is awaited;
\* a launch failure is surfaced only by the step where the fallback launch
\* raises; after a launch that succeeded, by the channel or by the fallback,
\* the process is recorded in the same way (create_browser(): under the
\* session id in _browser_refs, with the lock held and the session not yet in
\* _browsers; _launch_browser_process(): as self.browser), and a
\* create_browser() that then returns a new instance has it registered under
\* the session id, a start() that then returns has the browser, its default
\* context and page set.  The operation can still raise after a successful
\* launch, when the context or page creation raises.
C20_LaunchFallback ==
    /\ [][\A t \in Callers :
            /\ pc[t] \in {"cb_launch", "lp_channel"} /\ pc'[t] # pc[t]
               => \/ pc[t] = "cb_launch" /\ pc'[t] = "cb_new_context"
                  \/ pc[t] = "lp_channel" /\ pc'[t] = "lp_context"
                  \/ /\ pc'[t] = IF pc[t] = "cb_launch" THEN "cb_fallback"
                                 ELSE "lp_fallback"
                     /\ loc'[t].res = "raised"
                     /\ result' = NoResult
                     /\ UNCHANGED <<browsers, browser_refs, procs, gw_browser, mlock>>
            /\ pc[t] \in {"cb_launch", "cb_fallback", "lp_channel", "lp_fallback"}
               /\ result'.task = t /\ result'.res \in {"raised", "launch raised"}
               => pc[t] \in {"cb_fallback", "lp_fallback"}
            /\ pc[t] = "cb_new_context" /\ result'.task = t /\ result'.res = "instance"
               => /\ \E k \in 1..Len(browsers') :
                        browsers'[k] = [id |-> result'.sid, inst |-> result'.inst]
                  /\ \E k \in 1..Len(browser_refs') :
                        browser_refs'[k] = [id |-> result'.sid, proc |-> result'.inst]
            /\ pc[t] = "bs_subagent" /\ result'.task = t
               => /\ result'.res = "started"
                  /\ gw_browser' /\ gw_refs'.context /\ gw_refs'.page]_vars
    /\ [](\A t \in Callers :
            /\ pc[t] = "cb_new_context"
               => /\ RefOf(loc[t].sid) = loc[t].proc
                  /\ procs[loc[t].proc] = loc[t].sid
                  /\ Owns(mlock, t)
                  /\ ~HasKey(browsers, loc[t].sid)
            /\ pc[t] \in {"lp_context", "lp_fb_context", "bs_subagent"} => gw_browser)

\* in a start() and in a create_browser() the channel launch raised and the
\* fallback launch has succeeded: the one has set self.browser, the other has
\* recorded the process under its session id, and both await the context
C20_Witness ==
    \E t \in Callers :
        /\ pc[t] = "lp_fb_context"
        /\ loc[t].res = "raised"
        /\ gw_browser
        /\ \E u \in Callers :
              /\ pc[u] = "cb_new_context"
              /\ loc[u].res = "raised"
              /\ RefOf(loc[u].sid) = loc[u].proc


\* C21 as stated. No context of the shared browser is created or closed by a
\* session-less request while another request holds a live context (one that
\* is registered in _active_contexts).
C21_NothingWhileLive ==
    [][\A t \in Callers :
        \/ pc[t] \in {"ic_new_context", "cip_new_context"}
           /\ Len(ctx_browser') > Len(ctx_browser)
        \/ pc[t] \in {"ic_close", "xip_close"} /\ pc'[t] # pc[t]
        => active_contexts \ {loc[t].ctx} = {}]_vars

\* C21. The gateway mutex serializes context creation and the scopes of
\* isolated_context(): a context is created only by the task that holds the
\* mutex, and while a task is between the creation of its context and the end
\* of its isolated_context() cleanup, or between the creation and the
\* registration in create_isolated_page(), no other task creates a context
\* and no other task is in such a section.  The context create_isolated_page()
\* has returned stays registered after the mutex is released, and
\* close_isolated_page() closes it without the mutex.
C21_CreationSerialized ==
    /\ [][\A t \in Callers :
            pc[t] \in {"ic_new_context", "cip_new_context"}
            /\ Len(ctx_browser') > Len(ctx_browser)
            => /\ Owns(glock, t)
               /\ \A u \in Callers \ {t} :
                     pc[u] \notin {"ic_new_context", "ic_new_page", "ic_scope", "ic_close",
                                   "cip_new_context", "cip_new_page"}]_vars
    /\ [](\A t \in Callers :
            pc[t] \in {"ic_new_context", "ic_new_page", "ic_scope", "ic_close",
                       "cip_new_context", "cip_new_page"}
            => Owns(glock, t))

\* a context that create_isolated_page() handed out is still registered; a
\* task holds the mutex and has created the next context, and the other
\* caller waits for the mutex
C21_Witness ==
    \E t, u \in Callers :
        /\ t # u
        /\ pc[t] = "cip_new_page"
        /\ Owns(glock, t)
        /\ u \in Range(glock.waiters)
        /\ active_contexts \cap issued # {}


\* task t is inside the critical section of a tab operation of instance b:
\* it has the lock and is about to run the body, or it is suspended at an
\* await of create_tab, close_tab or close_all_tabs
InTabSection(t, b) ==
    /\ loc[t].inst = b
    /\ \/ pc[t] \in {"ct_evict", "ct_new_page", "ct_viewport", "ct_goto", "xt_close",
                     "cat_close"}
       \/ pc[t] = "locked" /\ ilock[b].holder = t /\ ~SelfDeadlocked(ilock[b], t)

\* C22. Within one BrowserInstance at most one task is inside the critical
\* section of create_tab, get_tab, close_tab, list_tabs or close_all_tabs at
\* any time, and that task holds the instance's lock: the bodies of the tab
\* operations run one after another, none starts between two steps of
\* another, and an eviction in progress belongs to the one task inside.
C22_TabOpsSerialized ==
    \A b \in Insts :
        /\ \A t1, t2 \in AllTasks : InTabSection(t1, b) /\ InTabSection(t2, b) => t1 = t2
        /\ \A t \in AllTasks : InTabSection(t, b) => Owns(ilock[b], t)
        /\ evicted.inst = b => \E t \in AllTasks : InTabSection(t, b) /\ pc[t] = "ct_evict"

\* a create_tab is suspended in its eviction, with a tab still registered,
\* while the other caller has called a method and waits for the lock
C22_Witness ==
    \E t, u \in Callers :
        /\ pc[t] = "ct_evict"
        /\ tabs[loc[t].inst] # <<>>
        /\ pc[u] = "locked"
        /\ loc[u].inst = loc[t].inst
        /\ u \in Range(ilock[loc[t].inst].waiters)


\* C23. Operations on different sessions never block one another
\* indefinitely: the manager lock is always eventually released, so a call
\* that waits for it (a get_browser or get_or_create_browser for another
\* session) is never queued behind a holder that waits for a lock it holds
\* itself and can therefore never release the manager lock.
C23_ManagerLockReleased ==
    \A u \in Range(mlock.waiters) :
        u # mlock.holder => ~Stuck(mlock.holder)


\* task t is suspended inside create_tab
InCreateTab(t) == pc[t] \in {"ct_evict", "ct_new_page", "ct_viewport", "ct_goto"}

\* C24. Single eviction per insertion: the body of create_tab on an open
\* instance removes exactly one tab, the first of the registry order and the
\* least recently used, when the registry holds MAX_TABS tabs at entry, and
\* none when it holds fewer; the rest of the call (the close of the evicted
\* page, the page creation, the viewport, the navigation, the store) removes
\* no further tab.
C24_SingleEviction ==
    [][\A t \in Callers :
        LET b == loc[t].inst IN
        /\ pc[t] = "locked" /\ pc'[t] = "ct_evict"
           => /\ Len(tabs[b]) = MAX_TABS
              /\ tabs'[b] = Tail(tabs[b])
              /\ evicted'.id = LruOf(b) /\ evicted'.id = tabs[b][1].id
              /\ loc'[t].victim = tabs[b][1].page
        /\ pc[t] = "locked" /\ pc'[t] = "ct_new_page"
           => /\ Len(tabs[b]) < MAX_TABS
              /\ tabs'[b] = tabs[b]
              /\ loc'[t].victim = NoPage
        /\ InCreateTab(t) /\ pc'[t] # "locked"
           => /\ Len(tabs'[b]) >= Len(tabs[b])
              /\ Range(Keys(tabs[b])) \subseteq Range(Keys(tabs'[b]))]_vars

\* a create_tab at capacity has evicted one tab, which an earlier create_tab
\* had inserted after the clock advanced, and the other tabs are registered
C24_Witness ==
    \E t \in Callers :
        /\ pc[t] = "ct_evict"
        /\ evicted.inst = loc[t].inst
        /\ evicted.created_at > 0
        /\ loc[t].victim = evicted.page
        /\ Len(tabs[loc[t].inst]) = MAX_TABS - 1


\* C25. Tab identifiers are unique within a BrowserInstance: a create_tab
\* call without an explicit id stores its tab under an identifier that no
\* registered tab of the instance has, so it adds an entry and replaces none.
C25_GeneratedIdsFresh ==
    [][\A t \in Callers :
        /\ InCreateTab(t)
        /\ result'.task = t /\ result'.fn = "create_tab" /\ result'.res = "ok"
        /\ result'.tab[1] >= 0
        => /\ ~HasKey(tabs[loc[t].inst], result'.tab)
           /\ Len(tabs'[loc[t].inst]) = Len(tabs[loc[t].inst]) + 1]_vars


\* C26. get_tab(id) on a registered tab of an open instance returns its page,
\* moves that tab to the most-recently-used end of the registry, sets its
\* last_accessed and the instance's last_activity to the current time and
\* leaves every other tab as it was; get_tab(id) on an unregistered id returns
\* None without raising and leaves the registry (order and every
\* last_accessed) and last_activity unchanged.
C26_GetTab ==
    [][\A t \in Callers :
        pc[t] = "locked" /\ result'.task = t /\ result'.fn = "get_tab"
        => LET b == loc[t].inst
               id == result'.tab
               n == Len(tabs[b])
           IN  /\ pc'[t] = "idle"
               /\ IF ~closed[b] /\ HasKey(tabs[b], id)
                  THEN /\ result'.res = "page"
                       /\ result'.page = PageOf(tabs[b], id)
                       /\ Keys(tabs'[b]) = Touched(Keys(tabs[b]), id)
                       /\ tabs'[b][n] = [tabs[b][IndexOf(tabs[b], id)]
                                           EXCEPT !.last_accessed = now]
                       /\ \A k \in 1..n : tabs[b][k].id # id
                             => tabs[b][k] \in Range(tabs'[b])
                       /\ last_activity'[b] = now
                       /\ is_active'[b]
                  ELSE /\ result'.res = "None"
                       /\ result'.page = NoPage
                       /\ UNCHANGED <<tabs, last_activity, is_active, recency>>]_vars

\* get_tab has just returned the page of a tab that is now the most recently
\* used although a tab created after it is registered
C26_Witness ==
    /\ result.fn = "get_tab"
    /\ result.res = "page"
    /\ LET ts == tabs[result.inst] IN
       /\ Len(ts) >= 2
       /\ ts[Len(ts)].id = result.tab
       /\ ts[Len(ts)].page = result.page
       /\ ts[Len(ts)].created_at < ts[1].created_at
       /\ ts[Len(ts)].last_accessed = now
    /\ last_activity[result.inst] = now


\* C27. close_tab(id) on an open instance returns True iff id was registered.
\* A registered entry is removed in the first step, before page.close() is
\* awaited, and every other entry is kept; whether page.close() returns or
\* raises, the call then returns True (the error is logged, not propagated)
\* with the entry gone, last_activity set and the lock left.  When the call
\* returns False the registry and last_activity are unchanged.
C27_CloseTab ==
    [][\A t \in Callers :
        LET b == loc[t].inst IN
        /\ pc[t] = "locked" /\ pc'[t] = "xt_close"
           => /\ ~closed[b]
              /\ HasKey(tabs[b], loc'[t].tab)
              /\ Keys(tabs'[b]) = Without(Keys(tabs[b]), loc'[t].tab)
              /\ Range(tabs'[b]) \subseteq Range(tabs[b])
              /\ loc'[t].page = PageOf(tabs[b], loc'[t].tab)
        /\ pc[t] = "locked" /\ result'.task = t /\ result'.fn = "close_tab"
           => /\ result'.res = "False"
              /\ closed[b] \/ ~HasKey(tabs[b], result'.tab)
              /\ pc'[t] = "idle"
              /\ UNCHANGED <<tabs, recency, last_activity, is_active>>
        /\ pc[t] = "xt_close" /\ pc'[t] # "xt_close"
           => /\ result'.task = t /\ result'.fn = "close_tab"
              /\ result'.res = "True"
              /\ result'.tab = loc[t].tab
              /\ pc'[t] = "idle"
              /\ ~HasKey(tabs'[b], loc[t].tab)
              /\ last_activity'[b] = now
              /\ Left(ilock'[b], t)]_vars

\* close_tab has just returned True although page.close() raised; the entry
\* is gone, another tab is still registered and the lock is free
C27_Witness ==
    /\ result.fn = "close_tab"
    /\ result.res = "True"
    /\ result.logged
    /\ ~HasKey(tabs[result.inst], result.tab)
    /\ tabs[result.inst] # <<>>
    /\ ilock[result.inst] = FreeLock


(***************************************************************************)
(* SpecRead: one session is registered with a started manager; the callers *)
(* hold its BrowserInstance and create tabs, look them up, list them, read *)
(* the instance's statistics and list the sessions while the clock runs.   *)
(***************************************************************************)
\* get_stats() of an instance: no lock, no await
instance_get_stats(t) ==
    /\ pc[t] = "idle"
    /\ \E b \in Insts :
          /\ constructed[b]
          /\ result' = Result(t, "get_stats", b, "dict", NoTab, NoPage,
                              <<[tab_count |-> Len(tabs[b]), max_tabs |-> MAX_TABS,
                                 is_active |-> is_active[b],
                                 last_activity |-> last_activity[b],
                                 idle_seconds |-> now - last_activity[b],
                                 closed |-> closed[b]]>>)
    /\ UNCHANGED <<now, taskVars, instVars, engineVars, gwVars, mgrVars, recency, evicted>>

\* a caller calls a method of the registered instance
holder_call(t) == \E b \in Insts : constructed[b] /\ method_call(t, "any", b)

\* create_browser("s1") has returned on a started manager
OneSession ==
    /\ now = 0
    /\ _subagent_manager = TRUE
    /\ pc = [t \in AllTasks |-> IF t \in Callers THEN "idle"
                                ELSE IF t = "sweep1" THEN "sw_sleep" ELSE "unborn"]
    /\ loc = [t \in AllTasks |-> IF t = "sweep1" THEN MStart("_cleanup_inactive", NoSession)
                                 ELSE NoLocals]
    /\ stack = [t \in AllTasks |-> <<>>]
    /\ constructed = [b \in Insts |-> b = 1]
    /\ inst_context = [b \in Insts |-> IF b = 1 THEN 1 ELSE NoCtx]
    /\ tabs = [b \in Insts |-> <<>>]
    /\ last_activity = [b \in Insts |-> 0]
    /\ is_active = [b \in Insts |-> b = 1]
    /\ closed = [b \in Insts |-> FALSE]
    /\ ilock = [b \in Insts |-> FreeLock]
    /\ ctx_browser = <<1>>
    /\ closed_ctx = {}
    /\ procs = <<"s1">>
    /\ closed_procs = {}
    /\ GatewayUnused
    /\ running = TRUE
    /\ playwright = TRUE
    /\ cleanup_task = "sweep1"
    /\ browsers = <<[id |-> "s1", inst |-> 1]>>
    /\ browser_refs = <<[id |-> "s1", proc |-> 1]>>
    /\ mlock = FreeLock
    /\ cancel_req = {}
    /\ stale = {}
    /\ recency = [b \in Insts |-> <<>>]
    /\ evicted = NoEviction
    /\ result = NoResult

ReadSteps(t) ==
    \/ holder_call(t)
    \/ create_tab_enter(t)
    \/ create_tab_evicted(t)
    \/ create_tab_new_page(t)
    \/ create_tab_viewport(t)
    \/ create_tab_goto(t)
    \/ get_tab_body(t)
    \/ list_tabs_body(t)
    \/ instance_get_stats(t)
    \/ manager_call(t)
    \/ list_sessions_body(t)

NextRead ==
    \/ Tick
    \/ \E t \in Callers : ReadSteps(t)

SpecRead == OneSession /\ [][NextRead]_vars

\* C28. get_stats(), list_tabs() and list_sessions() are pure reads: the step
\* in which one of them returns changes neither the tab registry (its order
\* and every last_accessed), nor last_activity, nor the active and closed
\* flags, nor the session maps; list_tabs() returns the registered tabs in the
\* current recency order, least recently used first.
C28_PureReads ==
    [][\A t \in Callers :
        result'.task = t /\ result'.fn \in {"get_stats", "list_tabs", "list_sessions"}
        => /\ UNCHANGED <<tabs, recency, last_activity, is_active, closed, browsers,
                          browser_refs>>
           /\ result'.fn = "list_tabs"
              => /\ Keys(result'.items) = recency[result'.inst]
                 /\ Range(result'.items) = Range(tabs[result'.inst])
                 /\ Len(result'.items) = Len(tabs[result'.inst])]_vars

\* list_tabs() has just returned a full registry whose first tab was created
\* after its last one (a get_tab moved the older tab to the end), and the
\* registry is as the call returned it
C28_Witness ==
    /\ result.fn = "list_tabs"
    /\ Len(result.items) = MAX_TABS
    /\ result.items[1].created_at > result.items[Len(result.items)].created_at
    /\ tabs[result.inst] = result.items


(***************************************************************************)
(* SpecSweep: sessions are created on a started manager, a holder of an    *)
(* instance closes it itself and its task can be cancelled inside close(); *)
(* the sweep task runs its cycles while the clock runs, and the manager is *)
(* stopped.                                                                *)
(***************************************************************************)
SweepCallerSteps(t) ==
    \/ manager_call(t)
    \/ create_browser_enter(t)
    \/ create_browser_launch(t)
    \/ create_browser_fallback(t)
    \/ create_browser_new_context(t)
    \/ holder_close(t)
    \/ close_cancelled(t)
    \/ instance_close_step(t)
    \/ stop_begin(t)
    \/ stop_awaited(t)
    \/ stop_step(t)

NextSweep ==
    \/ Tick
    \/ \E t \in Callers : SweepCallerSteps(t)
    \/ \E s \in SweepTasks : SweepSteps(s)

SpecSweep == Started /\ [][NextSweep]_vars


\* C29: while the manager is running, an error raised inside a cycle of the
\* sweep (a browser.close() that raises) is caught and logged and the task
\* goes on to sleep for its next cycle, holding no lock; the task ends only
\* when it is cancelled or when the running flag is false; a cancelled task
\* ends with no lock held, and stop(), which awaits it, goes on to take the
\* manager lock with the task forgotten: nothing is raised to it.
C29_SweepLoopSurvivesErrors ==
    [][/\ \A s \in SweepTasks :
            /\ pc[s] \notin {"unborn", "done"} /\ pc'[s] = "done"
               => \/ /\ s \in cancel_req
                     /\ result'.task = s /\ result'.res = "cancelled"
                     /\ Left(mlock', s)
                     /\ \A b \in Insts : Left(ilock'[b], s)
                  \/ ~running
            /\ result'.task = s /\ result'.fn = "_cleanup_inactive" /\ result'.logged
               /\ running
               => /\ pc'[s] = "sw_sleep"
                  /\ Left(mlock', s)
                  /\ result'.res = "None"
        /\ \A t \in Callers :
            pc[t] = "st_await" /\ pc'[t] # "st_await"
            => /\ pc[loc[t].awaits] = "done"
               /\ pc'[t] = "m_locked"
               /\ cleanup_task' = NoTask
               /\ result'.res # "raised"]_vars

\* the sweep task sleeps again after a cycle in which browser.close() raised,
\* the manager still running and the failed process still open
C29_Witness ==
    /\ running
    /\ result.fn = "_cleanup_inactive" /\ result.logged
    /\ pc[result.task] = "sw_sleep"
    /\ \E p \in 1..Len(procs) : p \notin closed_procs


(***************************************************************************)
(* SpecRestart: start() and stop() calls race on a manager that holds no   *)
(* session, while the sweep tasks that start() spawns run their cycles.    *)
(***************************************************************************)
RestartSteps(t) ==
    \/ manager_call(t)
    \/ start_enter(t)
    \/ start_playwright(t)
    \/ stop_begin(t)
    \/ stop_awaited(t)
    \/ stop_step(t)

RestartSweepSteps(s) ==
    \/ sweep_loop(s)
    \/ cleanup_step(s)
    \/ sweep_cancelled(s)

NextRestart ==
    \/ \E t \in Callers : RestartSteps(t)
    \/ \E s \in SweepTasks : RestartSweepSteps(s)

SpecRestart == Started /\ [][NextRestart]_vars


\* the sweep task s is inside a cycle: it is in the body of
\* _cleanup_inactive(), under the manager's lock, and no cancellation is
\* pending for it
InCycle(s) ==
    /\ \/ pc[s] \in {"m_locked", "sw_inst_closed", "sw_ref_close"}
       \/ "sw_inst_closed" \in Range(stack[s])
    /\ Owns(mlock, s)
    /\ s \notin cancel_req

\* C30: the idle sweep runs only while the manager is running: whenever a
\* sweep task is alive and executing a cleanup cycle, _running is true; and
\* when a stop() call that found the manager running has returned, no sweep
\* task of the manager is alive.
C30_SweepOnlyWhileRunning ==
    /\ \A s \in SweepTasks : InCycle(s) => running
    /\ result.fn = "stop" /\ result.res = "stopped" => AliveSweeps = {}



\* how far the BrowserManager.stop() call of task t has come: 1 inside
\* subagent_manager.stop(), 2 .. 7 at the steps that follow, 0 outside
StopRank(t) ==
    IF "gs_sub_stopped" \in Range(stack[t]) THEN 1
    ELSE CASE pc[t] = "gs_sub_stopped" -> 2
           [] pc[t] = "gs_page" -> 3
           [] pc[t] = "gs_context" -> 4
           [] pc[t] = "gs_browser" -> 5
           [] pc[t] = "gs_pw" -> 6
           [] pc[t] = "gs_xvfb" -> 7
           [] OTHER -> 0

\* C31: BrowserManager.stop() tears down in the order sub-agent manager,
\* default page, default context, browser process, runtime, virtual display:
\* nothing is torn down while something before it in that order is still held,
\* a stop() call only moves forward through the steps, every step clears its
\* own reference, and after a step whose close raised (logged) the call goes
\* on to the next thing still held, or returns when nothing is left.
C31_TeardownOrder ==
    /\ [](/\ gw_refs.subagent_manager => gw_refs.page
          /\ gw_refs.page => gw_refs.context
          /\ gw_refs.context => gw_browser
          /\ gw_browser => gw_refs.playwright)
    /\ [][\A t \in Callers :
            /\ gw_refs.xvfb_manager /\ ~gw_refs'.xvfb_manager => ~gw_refs.playwright
            /\ StopRank(t) = 1 => StopRank(t)' \in {1, 2}
            /\ StopRank(t) >= 2 /\ pc'[t] # pc[t]
               => /\ \/ StopRank(t)' > StopRank(t)
                     \/ /\ pc'[t] = "idle"
                        /\ result'.task = t /\ result'.fn = "BrowserManager.stop"
                        /\ result'.res = "stopped"
                  /\ pc[t] = "gs_sub_stopped" => ~gw_refs'.subagent_manager
                  /\ pc[t] = "gs_page" => ~gw_refs'.page
                  /\ pc[t] = "gs_context" => ~gw_refs'.context
                  /\ pc[t] = "gs_browser" => ~gw_browser'
                  /\ pc[t] = "gs_pw" => ~gw_refs'.playwright
                  /\ pc[t] = "gs_xvfb" => ~gw_refs'.xvfb_manager
                  /\ result'.logged
                     => pc'[t] = IF GsNext(gw_refs', gw_browser') = "done" THEN "idle"
                                 ELSE GsNext(gw_refs', gw_browser')]_vars

\* stop() has returned with everything cleared although browser.close()
\* raised: the shared process was never closed, the runtime and the display
\* were still stopped after it
C31_Witness ==
    /\ result.fn = "BrowserManager.stop" /\ result.res = "stopped"
    /\ SharedBrowser \notin closed_procs
    /\ ~gw_browser /\ gw_refs = NoRefs


\* C32: a failed create_tab has no effect on the registry: when create_tab
\* has raised, no tab was evicted by that call (a page it took out of the
\* registry would still be registered), and the raising step itself leaves the
\* registered tabs and their recency order as they were.
C32_FailedCreateKeepsRegistry ==
    result.fn = "create_tab" /\ result.res \in {"raised", "closed"}
    => \/ result.evicted = NoPage
       \/ \E k \in 1..Len(tabs[result.inst]) : tabs[result.inst][k].page = result.evicted


\* the handle of process p is recorded in _browser_refs
Recorded(refs, p) == \E k \in 1..Len(refs) : refs[k].proc = p

\* C33: no browser process handle is lost: a process launched by
\* create_browser leaves _browser_refs only in a step of close_browser or of
\* the idle sweep that pops it in order to close it, or in the step of stop()
\* that clears the map after the last browser.close() of its loop; no
\* create_browser call replaces or drops a recorded handle.
C33_NoHandleLost ==
    [][\A p \in 1..Len(procs) :
        Recorded(browser_refs, p) /\ ~Recorded(browser_refs', p)
        => \/ \E t \in AllTasks : /\ pc'[t] \in {"xb_ref_close", "sw_ref_close"}
                                  /\ pc[t] \in {"xb_inst_closed", "sw_inst_closed"}
                                  /\ loc'[t].proc = p
           \/ \E t \in Callers : /\ pc[t] = "st_ref_close" /\ pc'[t] # "st_ref_close"
                                 /\ Recorded(loc[t].queue, p)
                                 /\ browser_refs' = <<>>]_vars


\* C34: in every reachable state at most one idle-sweep task of the manager
\* is alive and its handle is the one held in _cleanup_task, whatever the
\* interleaving of start() and stop() calls, a start() that runs while stop()
\* awaits the cancelled sweep task included.
\* (a task whose cancellation is pending is not counted as alive)
C34_OneSweepTask ==
    /\ Cardinality(AliveSweeps \ cancel_req) <= 1
    /\ \A s \in AliveSweeps \ cancel_req : cleanup_task = s


\* C35: create_browser(session_id) and get_or_create_browser(session_id)
\* never return an instance whose closed flag is true, also after a holder of
\* the instance has called close() on it while it is still registered.
C35_NeverReturnsClosed ==
    /\ result.fn \in {"create_browser", "get_or_create_browser"}
    /\ result.res = "instance"
    => ~closed[result.inst]


(***************************************************************************)
(* SpecCycle: in one process a BrowserManager is started, stopped and      *)
(* started again, by callers that may overlap; the sub-agent manager comes *)
(* from get_subagent_manager() and its sweep task runs.                    *)
(***************************************************************************)
CycleSteps(t) ==
    \/ GatewayStartSteps(t)
    \/ start_enter(t)
    \/ start_playwright(t)
    \/ gateway_stop_begin(t)
    \/ gateway_stop_step(t)
    \/ stop_awaited(t)
    \/ stop_step(t)

NextCycle ==
    \/ \E t \in Callers : CycleSteps(t)
    \/ \E s \in SweepTasks : RestartSweepSteps(s)

SpecCycle == InitGw /\ [][NextCycle]_vars

\* C36: after every completed BrowserManager.start(), a start() that follows
\* an earlier start()/stop() pair included, the sub-agent manager it holds is
\* running (so that get_subagent_browser() can create a session): the
\* singleton is never handed out stopped.
C36_SingletonRunning ==
    result.fn = "BrowserManager.start" /\ result.res = "started"
    => gw_refs.subagent_manager /\ _subagent_manager /\ running


\* C37: in every reachable state an instance whose closed flag is true has
\* is_active false: nothing (update_activity(), close_all_tabs(), the reuse
\* path of the manager, a tool request that finishes late) re-activates a
\* closed instance.
C37_ClosedStaysInactive == \A b \in Insts : closed[b] => ~is_active[b]


\* C38: two session-routed tool requests that execute concurrently never
\* work on the same page at the same time: whenever two requests are both
\* in the tool's work on a page, their page handles are distinct.
C38_NoSharedPage ==
    \A t, u \in Callers :
        /\ t # u
        /\ pc[t] = "tl_work" /\ pc[u] = "tl_work"
        /\ loc[t].page # NoPage
        => loc[t].page # loc[u].page


(***************************************************************************)
(* SpecHalt: session-less requests use the gateway of a BrowserManager     *)
(* that holds no sub-agent manager, and BrowserManager.stop() is called.   *)
(***************************************************************************)
HaltSteps(t) ==
    \/ GatewaySteps(t)
    \/ gateway_stop_begin(t)
    \/ gateway_stop_step(t)

NextHalt == \E t \in Callers : HaltSteps(t)

SpecHalt == InitGw /\ [][NextHalt]_vars

\* C39: BrowserManager.stop() never closes the shared browser process while
\* a session-less request is inside an isolated_context() scope: the step of
\* stop() that closes the process is taken by a task that holds the gateway
\* mutex, with no request inside a scope; and when stop() has returned,
\* _active_contexts is empty.
C39_StopSerialized ==
    /\ [](result.fn = "BrowserManager.stop" /\ result.res = "stopped"
          => active_contexts = {})
    /\ [][\A t \in Callers :
            pc[t] = "gs_browser" /\ pc'[t] # "gs_browser"
            => /\ Owns(glock, t)
               /\ \A u \in Callers : ~InScope(u)]_vars



(***************************************************************************)
(* SpecGwFair: the session-less requests of SpecGw on a fair event loop.   *)
(* A task that can run is run, so a task that has returned from acquire()  *)
(* goes on; an awaited engine call (new_context(), new_page(), close())    *)
(* returns or raises; and a scope that has been entered is left.  Nothing  *)
(* obliges a caller to make a new request.                                 *)
(***************************************************************************)
GatewayProgress(t) ==
    \/ isolated_context_enter(t)
    \/ isolated_context_new_context(t)
    \/ isolated_context_new_page(t)
    \/ isolated_context_exit(t)
    \/ isolated_context_closed(t)
    \/ create_isolated_page_enter(t)
    \/ create_isolated_page_new_context(t)
    \/ create_isolated_page_new_page(t)
    \/ close_isolated_page_closed(t)

SpecGwFair ==
    /\ InitGw
    /\ [][NextGw]_vars
    /\ \A t \in Callers : WF_vars(GatewayProgress(t))

\* a step of t that leaves the gateway mutex hands it to the first waiter
ServesWaiters(t) ==
    /\ Left(glock', t)
    /\ glock.waiters # <<>>
       => /\ glock'.holder = Head(glock.waiters)
          /\ glock'.waiters = Tail(glock.waiters)

\* C40 as stated: on a started BrowserManager every caller of
\* isolated_context() eventually enters its scope, provided every scope that
\* is entered eventually exits.
C40_EveryCallerEntersScope ==
    \A t \in Callers :
        (gw_browser /\ pc[t] = "ic_new_context") ~> (pc[t] = "ic_scope")

\* C40, amended: no starvation at the gateway.  Provided every scope that is
\* entered eventually exits, every caller that waits for the gateway mutex
\* eventually holds it; on a started BrowserManager a caller of
\* isolated_context() that holds it eventually enters its scope, or its
\* context or page creation raises and the call ends with that exception;
\* every scope that is entered is left with the mutex released.  The mutex
\* is released on every exit path, a failed context or page creation
\* included, and is handed to the first waiting caller.
C40_NoStarvation ==
    /\ \A t \in Callers :
          (pc[t] = "g_locked" /\ t \in Range(glock.waiters)) ~> Owns(glock, t)
    /\ \A t \in Callers :
          (gw_browser /\ pc[t] = "g_locked" /\ Owns(glock, t))
             ~> (pc[t] \in {"ic_scope", "idle"})
    /\ \A t \in Callers : InScope(t) ~> (pc[t] = "idle" /\ Left(glock, t))
    /\ [][\A t \in Callers :
            /\ pc[t] \in {"ic_new_context", "ic_new_page"} /\ pc'[t] # pc[t]
               => \/ pc'[t] = "ic_new_page" /\ Owns(glock', t)
                  \/ pc'[t] = "ic_scope" /\ Owns(glock', t)
                  \/ /\ pc'[t] = "idle"
                     /\ result'.task = t /\ result'.fn = "isolated_context"
                     /\ result'.res = "raised"
                     /\ ServesWaiters(t)
            /\ pc[t] = "ic_close" /\ pc'[t] # pc[t]
               => pc'[t] = "idle" /\ ServesWaiters(t)
            /\ pc[t] = "idle" => Left(glock, t)]_vars

\* a caller waited for the mutex while another caller's context creation was
\* pending; the creation raised, and the waiting caller holds the mutex
C40_Witness ==
    /\ gw_browser
    /\ result.fn = "isolated_context"
    /\ result.res = "raised"
    /\ result.page = NoPage
    /\ pc[result.task] = "idle"
    /\ \E u \in Callers \ {result.task} : pc[u] = "g_locked" /\ Owns(glock, u)

====
